---- MODULE Spec2Model ----
(***************************************************************************)
(* rss_email: the feed-polling engine of main.go (checkFeeds, processFeed, *)
(* processNewFeed, processExistingFeed, sendItem, calculateBackoff,        *)
(* parseRetryAfter), the store of database.go and the first-run selection  *)
(* of rss.go.                                                              *)
(*                                                                         *)
(* Time is counted in whole seconds.  A time.Duration is a signed 64-bit   *)
(* count of nanoseconds; it is kept as five limbs of 15 bits (the fifth    *)
(* holds the top four bits) so that its wrap-around is the program's.      *)
(***************************************************************************)
EXTENDS Integers, Sequences, FiniteSets, TLC

(***************************************************************************)
(* Bounds of the model.                                                    *)
(***************************************************************************)
MaxCycles == 3
MaxItems == 2
MaxNewItems == 3
MaxFaults == 1
MaxErrorCount == 66
MaxFaultCycles == 2

(***************************************************************************)
(* 64-bit two's complement arithmetic (Go's int64 / time.Duration).        *)
(***************************************************************************)
Limb == 2^15
TopLimb == 2^4
Limbs == 1..5

\* Carry propagation over raw limbs; the fifth limb is cut to 4 bits (mod 2^64).
Carry(r) ==
    LET s2 == r[2] + (r[1] \div Limb)
        s3 == r[3] + (s2 \div Limb)
        s4 == r[4] + (s3 \div Limb)
        s5 == r[5] + (s4 \div Limb)
    IN  <<r[1] % Limb, s2 % Limb, s3 % Limb, s4 % Limb, s5 % TopLimb>>

\* The same without the cut: the fifth limb keeps what exceeds 64 bits.
CarryWide(r) ==
    LET s2 == r[2] + (r[1] \div Limb)
        s3 == r[3] + (s2 \div Limb)
        s4 == r[4] + (s3 \div Limb)
        s5 == r[5] + (s4 \div Limb)
    IN  <<r[1] % Limb, s2 % Limb, s3 % Limb, s4 % Limb, s5>>

Zero64 == <<0, 0, 0, 0, 0>>
One64 == <<1, 0, 0, 0, 0>>
MinInt64 == <<0, 0, 0, 0, TopLimb \div 2>>
MaxInt64 == <<Limb - 1, Limb - 1, Limb - 1, Limb - 1, (TopLimb \div 2) - 1>>

\* int64(n) for 0 <= n < 2^31
FromNat(n) == <<n % Limb, (n \div Limb) % Limb, (n \div Limb) \div Limb, 0, 0>>

Add64(x, y) == Carry(<<x[1] + y[1], x[2] + y[2], x[3] + y[3], x[4] + y[4], x[5] + y[5]>>)
Neg64(x) ==
    Add64(<<Limb - 1 - x[1], Limb - 1 - x[2], Limb - 1 - x[3], Limb - 1 - x[4],
            TopLimb - 1 - x[5]>>, One64)
\* int64(n) for -2^31 < n < 2^31
FromInt(n) == IF n < 0 THEN Neg64(FromNat(0 - n)) ELSE FromNat(n)

\* x * m (mod 2^64) for 0 <= m < 2^15
MulSmall(x, m) == Carry(<<x[1] * m, x[2] * m, x[3] * m, x[4] * m, x[5] * m>>)
ShiftLimbs(x, j) ==
    IF j = 0 THEN x
    ELSE IF j = 1 THEN <<0, x[1], x[2], x[3], x[4] % TopLimb>>
    ELSE IF j = 2 THEN <<0, 0, x[1], x[2], x[3] % TopLimb>>
    ELSE IF j = 3 THEN <<0, 0, 0, x[1], x[2] % TopLimb>>
    ELSE <<0, 0, 0, 0, x[1] % TopLimb>>
\* x * y (mod 2^64)
Mul64(x, y) ==
    LET p(j) == IF y[j] = 0 THEN Zero64 ELSE ShiftLimbs(MulSmall(x, y[j]), j - 1)
    IN  Add64(Add64(Add64(Add64(p(1), p(2)), p(3)), p(4)), p(5))

IsNeg64(x) == x[5] >= TopLimb \div 2
IsZero64(x) == x = Zero64
RECURSIVE LessFrom(_, _, _)
LessFrom(x, y, i) ==
    IF i = 0 THEN FALSE
    ELSE IF x[i] # y[i] THEN x[i] < y[i]
    ELSE LessFrom(x, y, i - 1)
\* x < y as signed 64-bit integers
Less64(x, y) ==
    IF IsNeg64(x) # IsNeg64(y) THEN IsNeg64(x) ELSE LessFrom(x, y, 5)

\* x \div m for x >= 0 and 0 < m < 2^15
DivSmall(x, m) ==
    LET r5 == x[5] % m
        c4 == r5 * Limb + x[4]
        c3 == (c4 % m) * Limb + x[3]
        c2 == (c3 % m) * Limb + x[2]
        c1 == (c2 % m) * Limb + x[1]
    IN  <<c1 \div m, c2 \div m, c3 \div m, c4 \div m, x[5] \div m>>
\* the integer x, for 0 <= x < 2^31
ToNat(x) == x[1] + x[2] * Limb + x[3] * Limb * Limb

(***************************************************************************)
(* package time                                                            *)
(***************************************************************************)
Thousand == 10 * 10 * 10
Second == MulSmall(MulSmall(MulSmall(One64, Thousand), Thousand), Thousand)
Minute == MulSmall(Second, 60)
Hour == MulSmall(Minute, 60)
StandardInterval == MulSmall(Minute, 60)
\* whole seconds in a non-negative Duration of less than 2^31 seconds
Seconds(d) == ToNat(DivSmall(DivSmall(DivSmall(d, Thousand), Thousand), Thousand))
StandardIntervalSecs == Seconds(StandardInterval)
\* t.Add(d), the time kept in whole seconds
TimeAdd(t, d) ==
    IF IsNeg64(d) THEN t - Seconds(Neg64(d)) ELSE t + Seconds(d)
\* time.Until(t) = t.Sub(time.Now())
Until(t, now_) == Mul64(FromInt(t - now_), Second)

StatusOK == 200
StatusNotModified == 304
StatusGone == 410
StatusTooManyRequests == 429

(***************************************************************************)
(* The Retry-After response header.  A header value is one of              *)
(*   [kind |-> "none"]                            absent or empty          *)
(*   [kind |-> "int", neg |-> b, digits |-> ds]   optional sign and decimal*)
(*                                                digits                   *)
(*   [kind |-> "date", t |-> s]                   an HTTP date, s seconds  *)
(*   [kind |-> "junk"]                            anything else            *)
(***************************************************************************)
NoHeader == [kind |-> "none"]
JunkHeader == [kind |-> "junk"]
IntHeader(neg, digits) == [kind |-> "int", neg |-> neg, digits |-> digits]
DateHeader(t) == [kind |-> "date", t |-> t]

\* strconv.Atoi: the value as an int64, or <<>> for a syntax or range error
RECURSIVE AtoiFrom(_, _, _, _)
AtoiFrom(digits, i, acc, neg) ==
    IF i > Len(digits) THEN (IF neg THEN Neg64(acc) ELSE acc)
    ELSE LET raw == CarryWide(<<acc[1] * 10 + digits[i], acc[2] * 10, acc[3] * 10,
                               acc[4] * 10, acc[5] * 10>>)
         IN  IF raw[5] < TopLimb \div 2
             THEN AtoiFrom(digits, i + 1, raw, neg)
             ELSE IF neg /\ raw = MinInt64 /\ i = Len(digits)
             THEN MinInt64
             ELSE <<>>
Atoi(header) ==
    IF header.kind = "int" THEN AtoiFrom(header.digits, 1, Zero64, header.neg)
    ELSE <<>>

\* http.ParseTime: the time in seconds, or -1 when the header is no HTTP date
ParseTime(header) == IF header.kind = "date" THEN header.t ELSE 0 - 1

\* main.go parseRetryAfter
parseRetryAfter(header, now_) ==
    IF header.kind = "none" THEN Zero64
    ELSE IF Atoi(header) # <<>> THEN Mul64(Atoi(header), Second)
    ELSE IF ParseTime(header) >= 0 THEN Until(ParseTime(header), now_)
    ELSE Zero64

(***************************************************************************)
(* time.Duration(math.Pow(2, float64(k))): exact up to 2^62; beyond that   *)
(* the float does not fit an int64 and the conversion yields what the      *)
(* target's instruction yields: the minimum on amd64, the maximum on arm64.*)
(***************************************************************************)
Arch == {"amd64", "arm64"}
Pow2(k) == ShiftLimbs(<<2^(k % 15), 0, 0, 0, 0>>, k \div 15)
FloatToDuration(k, arch) ==
    IF k <= 62 THEN Pow2(k)
    ELSE IF arch = "amd64" THEN MinInt64 ELSE MaxInt64

Day365 == 365 * 24 * 60 * 60

calculateBackoffCapTwoDays(status, retryAfter, errorCount, now_, arch) ==
    LET retryDuration == parseRetryAfter(retryAfter, now_)
        raw == Mul64(StandardInterval, FloatToDuration(errorCount - 1, arch))
        capped == IF Less64(MulSmall(Hour, 48), raw) THEN MulSmall(Hour, 48) ELSE raw
        backoff == IF Less64(capped, StandardInterval) THEN StandardInterval ELSE capped
    IN  IF status = StatusGone THEN now_ + Day365
        ELSE IF Less64(Zero64, retryDuration) THEN TimeAdd(now_, retryDuration)
        ELSE TimeAdd(now_, backoff)

calculateBackoffNoGone(status, retryAfter, errorCount, now_, arch) ==
    LET retryDuration == parseRetryAfter(retryAfter, now_)
        raw == Mul64(StandardInterval, FloatToDuration(errorCount - 1, arch))
        capped == IF Less64(MulSmall(Hour, 24), raw) THEN MulSmall(Hour, 24) ELSE raw
        backoff == IF Less64(capped, StandardInterval) THEN StandardInterval ELSE capped
    IN  IF Less64(Zero64, retryDuration) THEN TimeAdd(now_, retryDuration)
        ELSE TimeAdd(now_, backoff)

calculateBackoffNoCap(status, retryAfter, errorCount, now_, arch) ==
    LET retryDuration == parseRetryAfter(retryAfter, now_)
        raw == Mul64(StandardInterval, FloatToDuration(errorCount - 1, arch))
        backoff == IF Less64(raw, StandardInterval) THEN StandardInterval ELSE raw
    IN  IF status = StatusGone THEN now_ + Day365
        ELSE IF Less64(Zero64, retryDuration) THEN TimeAdd(now_, retryDuration)
        ELSE TimeAdd(now_, backoff)

calculateBackoffNoRetryAfter(status, retryAfter, errorCount, now_, arch) ==
    LET raw == Mul64(StandardInterval, FloatToDuration(errorCount - 1, arch))
        capped == IF Less64(MulSmall(Hour, 24), raw) THEN MulSmall(Hour, 24) ELSE raw
        backoff == IF Less64(capped, StandardInterval) THEN StandardInterval ELSE capped
    IN  IF status = StatusGone THEN now_ + Day365
        ELSE TimeAdd(now_, backoff)

\* main.go calculateBackoff; now_ is time.Now() in seconds
calculateBackoff(status, retryAfter, errorCount, now_, arch) ==
    LET retryDuration == parseRetryAfter(retryAfter, now_)
        raw == Mul64(StandardInterval, FloatToDuration(errorCount - 1, arch))
        capped == IF Less64(MulSmall(Hour, 24), raw) THEN MulSmall(Hour, 24) ELSE raw
        backoff == IF Less64(capped, StandardInterval) THEN StandardInterval ELSE capped
    IN  IF status = StatusGone THEN now_ + Day365
        ELSE IF Less64(Zero64, retryDuration) THEN TimeAdd(now_, retryDuration)
        ELSE TimeAdd(now_, backoff)

(***************************************************************************)
(* Configuration and the values that travel through the program.           *)
(***************************************************************************)
\* cfg.Feeds, in configuration order
Feeds == <<"fA", "fB">>
FeedURLs == {Feeds[i] : i \in 1..Len(Feeds)}

\* a nil *time.Time
NoTime == 0 - 1

\* What main reads at startup: whether config.yaml can be read and parsed, its
\* feeds list, and the three environment variables ("" when unset)
Config(file, feeds, address, password, recipient) ==
    [file |-> file, feeds |-> feeds, GMAIL_ADDRESS |-> address,
     GMAIL_APP_PASSWORD |-> password, RECIPIENT_EMAIL |-> recipient]
ValidConfig == Config("ok", Feeds, "sender", "secret", "reader")

\* gofeed.Item entries a feed document may hold: GUID, Link, PublishedParsed,
\* UpdatedParsed (titles and bodies play no part in polling or delivery)
Entry(g, l, p, u) == [GUID |-> g, Link |-> l, PublishedParsed |-> p, UpdatedParsed |-> u]
Entries ==
    { Entry("g1", "l1", 1, NoTime),
      Entry("g2", "", NoTime, 2),
      Entry("", "g3", NoTime, NoTime),
      Entry("", "", 2, NoTime) }
\* the same with two more dated entries that share the latest time
MoreEntries ==
    Entries \cup {Entry("g4", "l4", 3, NoTime), Entry("g5", "", NoTime, 3)}
\* The documents servers may serve: a "small" catalog for runs of several
\* cycles, a "large" one for the first cycle of a feed, and a "slow" one of
\* three documents for runs in which the mail server is slow to answer
Catalogs == {"small", "large", "slow", "steady", "shared"}
EntryLists(cat) ==
    IF cat = "small" THEN UNION {[1..n -> Entries] : n \in 0..MaxItems}
    ELSE IF cat = "large" THEN UNION {[1..n -> MoreEntries] : n \in 0..MaxNewItems}
    ELSE { <<>>,
           <<Entry("g1", "l1", 1, NoTime)>>,
           <<Entry("g1", "l1", 1, NoTime), Entry("g2", "", NoTime, 2)>> }

\* rss.go FeedItem
FeedItem(g, p) == [GUID |-> g, Published |-> p]

\* rss.go normalizeFeedItem: the item, or <<>> for nil
normalizeFeedItemKeepsAll(entry) ==
    LET link == entry.Link
        guid == IF entry.GUID = "" THEN link ELSE entry.GUID
        published == IF entry.PublishedParsed # NoTime THEN entry.PublishedParsed
                     ELSE IF entry.UpdatedParsed # NoTime THEN entry.UpdatedParsed
                     ELSE NoTime
    IN  <<FeedItem(guid, published)>>
normalizeFeedItem(entry) ==
    LET link == entry.Link
        guid == IF entry.GUID = "" THEN link ELSE entry.GUID
        published == IF entry.PublishedParsed # NoTime THEN entry.PublishedParsed
                     ELSE IF entry.UpdatedParsed # NoTime THEN entry.UpdatedParsed
                     ELSE NoTime
    IN  IF guid = "" /\ link = "" THEN <<>>
        ELSE <<FeedItem(guid, published)>>

\* rss.go FetchFeed, the item loop: entries in order, the nil ones left out
RECURSIVE normalizeAll(_)
normalizeAll(entries) ==
    IF entries = <<>> THEN <<>>
    ELSE normalizeFeedItem(Head(entries)) \o normalizeAll(Tail(entries))

GUIDs == {"g1", "g2", "g3", "g4", "g5"}

\* rss.go GetMostRecentItem: the index of the chosen item, 0 for nil
RECURSIVE mostRecentFrom(_, _, _)
mostRecentFrom(items, i, best) ==
    IF i > Len(items) THEN best
    ELSE IF items[i].Published # NoTime
            /\ (best = 0 \/ items[i].Published > items[best].Published)
         THEN mostRecentFrom(items, i + 1, i)
         ELSE mostRecentFrom(items, i + 1, best)
RECURSIVE mostRecentOrEqualFrom(_, _, _)
mostRecentOrEqualFrom(items, i, best) ==
    IF i > Len(items) THEN best
    ELSE IF items[i].Published # NoTime
            /\ (best = 0 \/ items[i].Published >= items[best].Published)
         THEN mostRecentOrEqualFrom(items, i + 1, i)
         ELSE mostRecentOrEqualFrom(items, i + 1, best)
GetMostRecentItemLastOfTies(items) ==
    IF Len(items) = 0 THEN 0
    ELSE IF mostRecentOrEqualFrom(items, 1, 0) # 0 THEN mostRecentOrEqualFrom(items, 1, 0)
    ELSE 1
GetMostRecentItemLast(items) ==
    IF Len(items) = 0 THEN 0 ELSE Len(items)
GetMostRecentItem(items) ==
    IF Len(items) = 0 THEN 0
    ELSE IF mostRecentFrom(items, 1, 0) # 0 THEN mostRecentFrom(items, 1, 0)
    ELSE 1

(***************************************************************************)
(* One HTTP exchange, as FetchFeed sees it.                                *)
(***************************************************************************)
Statuses == {StatusOK, StatusNotModified, StatusGone, StatusTooManyRequests, 500}
\* Retry-After values servers send in the polling model
RetryAfters == {NoHeader, IntHeader(FALSE, <<1, 2, 0>>)}
\* a body: one that cannot be read, one gofeed cannot parse, or a feed document
Unreadable == [read |-> FALSE, parsed |-> FALSE, entries |-> <<>>]
Malformed == [read |-> TRUE, parsed |-> FALSE, entries |-> <<>>]
Document(entries) == [read |-> TRUE, parsed |-> TRUE, entries |-> entries]
NoBody == Document(<<>>)
Bodies(cat) == {Unreadable, Malformed} \cup {Document(es) : es \in EntryLists(cat)}

NetworkError == [neterr |-> TRUE]
Response(st, lm, et, ra, body) ==
    [neterr |-> FALSE, status |-> st, lastModified |-> lm, etag |-> et,
     retryAfter |-> ra, body |-> body]
\* What the server of the first configured feed answers.  Only a 200 response
\* has its body read and Retry-After is read only on the failure path, so the
\* other responses carry neither; a 304 may omit the validator headers, and
\* a server may send a document along with it.
Exchanges(cat) ==
    {NetworkError}
    \cup {Response(st, "m9", "e9", ra, NoBody) :
            st \in Statuses \ {StatusOK, StatusNotModified}, ra \in RetryAfters}
    \cup {Response(StatusNotModified, "", "", NoHeader, NoBody),
          Response(StatusNotModified, "m1", "e1", NoHeader, NoBody),
          Response(StatusNotModified, "m1", "e1", NoHeader,
                   Document(<<Entry("g1", "l1", 1, NoTime)>>))}
    \cup {Response(StatusOK, "m1", "e1", NoHeader, b) : b \in Bodies(cat)}
\* What the servers of the other feeds answer.
OtherExchanges ==
    {NetworkError,
     Response(StatusTooManyRequests, "m2", "e2", IntHeader(FALSE, <<1, 2, 0>>), NoBody),
     Response(StatusOK, "m2", "e2", NoHeader, Document(<<Entry("g1", "l1", 1, NoTime)>>))}
\* The "steady" catalog: every feed's document stays the same, and its server
\* answers a request with the document or, the validators being the ones it
\* sent, with 304 Not Modified.
SteadyDocument == <<Entry("g1", "l1", 1, NoTime), Entry("g2", "", NoTime, 2)>>
SteadyExchanges ==
    {Response(StatusOK, "m1", "e1", NoHeader, Document(SteadyDocument)),
     Response(StatusNotModified, "m1", "e1", NoHeader, NoBody)}
\* The "shared" catalog: the feeds carry the same items under the same GUIDs
\* (two sites syndicating one source); each server answers with a document
\* of the first item or of both, with 429, or not at all.
SharedExchanges ==
    {NetworkError,
     Response(StatusTooManyRequests, "m9", "e9", IntHeader(FALSE, <<1, 2, 0>>), NoBody),
     Response(StatusOK, "m1", "e1", NoHeader, Document(<<Entry("g1", "l1", 1, NoTime)>>)),
     Response(StatusOK, "m2", "e2", NoHeader, Document(SteadyDocument))}
ExchangesOf(feedURL, cat) ==
    IF cat = "steady" THEN SteadyExchanges
    ELSE IF cat = "shared" THEN SharedExchanges
    ELSE IF feedURL = Feeds[1] THEN Exchanges(cat) ELSE OtherExchanges

\* rss.go FetchFeed: (result, err); nil marks a nil result
FeedResult(st, lm, et, ra, nm, items, err) ==
    [nil |-> FALSE, StatusCode |-> st, LastModified |-> lm, ETag |-> et,
     RetryAfter |-> ra, NotModified |-> nm, Items |-> items, err |-> err]
NilResult == [nil |-> TRUE, err |-> TRUE]
FetchFeedIgnoresStatus(x) ==
    IF x.neterr THEN NilResult
    ELSE IF x.status = StatusNotModified
    THEN FeedResult(x.status, x.lastModified, x.etag, x.retryAfter, TRUE, <<>>, FALSE)
    ELSE IF x.status = StatusTooManyRequests
    THEN FeedResult(x.status, x.lastModified, x.etag, x.retryAfter, FALSE, <<>>, TRUE)
    ELSE IF ~x.body.read
    THEN FeedResult(x.status, x.lastModified, x.etag, x.retryAfter, FALSE, <<>>, TRUE)
    ELSE IF ~x.body.parsed
    THEN FeedResult(x.status, x.lastModified, x.etag, x.retryAfter, FALSE, <<>>, TRUE)
    ELSE FeedResult(x.status, x.lastModified, x.etag, x.retryAfter, FALSE,
                    normalizeAll(x.body.entries), FALSE)
FetchFeedIgnoresParseError(x) ==
    IF x.neterr THEN NilResult
    ELSE IF x.status = StatusNotModified
    THEN FeedResult(x.status, x.lastModified, x.etag, x.retryAfter, TRUE, <<>>, FALSE)
    ELSE IF x.status = StatusTooManyRequests
    THEN FeedResult(x.status, x.lastModified, x.etag, x.retryAfter, FALSE, <<>>, TRUE)
    ELSE IF x.status # StatusOK
    THEN FeedResult(x.status, x.lastModified, x.etag, x.retryAfter, FALSE, <<>>, TRUE)
    ELSE IF ~x.body.read
    THEN FeedResult(x.status, x.lastModified, x.etag, x.retryAfter, FALSE, <<>>, TRUE)
    ELSE FeedResult(x.status, x.lastModified, x.etag, x.retryAfter, FALSE,
                    normalizeAll(x.body.entries), FALSE)
FetchFeedDropsRetryAfter(x) ==
    IF x.neterr THEN NilResult
    ELSE IF x.status = StatusNotModified
    THEN FeedResult(x.status, x.lastModified, x.etag, x.retryAfter, TRUE, <<>>, FALSE)
    ELSE IF x.status = StatusTooManyRequests
    THEN FeedResult(x.status, x.lastModified, x.etag, NoHeader, FALSE, <<>>, TRUE)
    ELSE IF x.status # StatusOK
    THEN FeedResult(x.status, x.lastModified, x.etag, x.retryAfter, FALSE, <<>>, TRUE)
    ELSE IF ~x.body.read \/ ~x.body.parsed
    THEN FeedResult(x.status, x.lastModified, x.etag, x.retryAfter, FALSE, <<>>, TRUE)
    ELSE FeedResult(x.status, x.lastModified, x.etag, x.retryAfter, FALSE,
                    normalizeAll(x.body.entries), FALSE)
FetchFeedReads304(x) ==
    IF x.neterr THEN NilResult
    ELSE IF x.status = StatusTooManyRequests
    THEN FeedResult(x.status, x.lastModified, x.etag, x.retryAfter, FALSE, <<>>, TRUE)
    ELSE IF x.status # StatusOK /\ x.status # StatusNotModified
    THEN FeedResult(x.status, x.lastModified, x.etag, x.retryAfter, FALSE, <<>>, TRUE)
    ELSE IF ~x.body.read \/ ~x.body.parsed
    THEN FeedResult(x.status, x.lastModified, x.etag, x.retryAfter, FALSE, <<>>, TRUE)
    ELSE FeedResult(x.status, x.lastModified, x.etag, x.retryAfter, FALSE,
                    normalizeAll(x.body.entries), FALSE)
FetchFeed(x) ==
    IF x.neterr THEN NilResult
    ELSE IF x.status = StatusNotModified
    THEN FeedResult(x.status, x.lastModified, x.etag, x.retryAfter, TRUE, <<>>, FALSE)
    ELSE IF x.status = StatusTooManyRequests
    THEN FeedResult(x.status, x.lastModified, x.etag, x.retryAfter, FALSE, <<>>, TRUE)
    ELSE IF x.status # StatusOK
    THEN FeedResult(x.status, x.lastModified, x.etag, x.retryAfter, FALSE, <<>>, TRUE)
    ELSE IF ~x.body.read
    THEN FeedResult(x.status, x.lastModified, x.etag, x.retryAfter, FALSE, <<>>, TRUE)
    ELSE IF ~x.body.parsed
    THEN FeedResult(x.status, x.lastModified, x.etag, x.retryAfter, FALSE, <<>>, TRUE)
    ELSE FeedResult(x.status, x.lastModified, x.etag, x.retryAfter, FALSE,
                    normalizeAll(x.body.entries), FALSE)

(***************************************************************************)
(* The store (database.go): tables feed_metadata and sent_items.           *)
(***************************************************************************)
NoRow == [exists |-> FALSE]
MetadataRow(lm, et, lc, st, nca, ec) ==
    [exists |-> TRUE, last_modified |-> lm, etag |-> et, last_checked |-> lc,
     last_poll_status |-> st, next_check_after |-> nca, error_count |-> ec]

\* database.go GetFeedMetadata: the row, or NoRow for (nil, nil)
GetFeedMetadata(md, feedURL) == md[feedURL]

\* The upsert main.go calls: every column of the feed's row is written,
\* last_checked with the time of the call.
UpsertFeedMetadata(md, feedURL, lastModified, etag, pollStatus, errorCount, nextCheckAfter, t) ==
    [md EXCEPT ![feedURL] =
        MetadataRow(lastModified, etag, t, pollStatus, nextCheckAfter, errorCount)]

SentRow(feedURL, guid, t) == [feed_url |-> feedURL, item_guid |-> guid, sent_at |-> t]
\* database.go IsItemSent
IsItemSentAnyFeed(si, feedURL, itemGUID) ==
    \E r \in si : r.item_guid = itemGUID
IsItemSentNever(si, feedURL, itemGUID) == FALSE
IsItemSent(si, feedURL, itemGUID) ==
    Cardinality({r \in si : r.feed_url = feedURL /\ r.item_guid = itemGUID}) > 0
\* database.go HasFeedItems
HasFeedItemsNever(si, feedURL) == FALSE
HasFeedItems(si, feedURL) ==
    Cardinality({r \in si : r.feed_url = feedURL}) > 0
\* database.go MarkItemSent: the INSERT; UNIQUE(feed_url, item_guid) rejects a
\* second row for the pair and leaves the table as it was
MarkItemSent(si, feedURL, itemGUID, t) ==
    IF \E r \in si : r.feed_url = feedURL /\ r.item_guid = itemGUID
    THEN si
    ELSE si \cup {SentRow(feedURL, itemGUID, t)}
\* database.go MarkItemSent: the text it compares the driver's error with,
\* and the texts a driver gives for a rejected INSERT: SQLite's own message,
\* or that message the way modernc.org/sqlite (the driver imported at
\* database.go:10) wraps it, with the result-code name before and the code
\* after
UniqueMessage == "UNIQUE constraint failed: sent_items.feed_url, sent_items.item_guid"
DriverMessages ==
    { UniqueMessage,
      "constraint failed: UNIQUE constraint failed: sent_items.feed_url, sent_items.item_guid (2067)" }
\* database.go MarkItemSent: TRUE when it returns an error, the store
\* answering; message is err.Error() of a rejected INSERT
MarkItemSentErr(si, feedURL, itemGUID, message) ==
    IF \E r \in si : r.feed_url = feedURL /\ r.item_guid = itemGUID
    THEN message # UniqueMessage
    ELSE FALSE

(***************************************************************************)
(* State.                                                                  *)
(***************************************************************************)
VARIABLES
    now,            \* the wall clock, in seconds
    feed_metadata,  \* table feed_metadata: feed_url -> row or NoRow
    sent_items,     \* table sent_items: a set of rows
    pc,             \* "feed": checkFeeds is about to call processFeed(Feeds[idx])
                    \* "new": in processNewFeed;  "existing": in the loop of
                    \* processExistingFeed, at items[k];  "idle": between cycles;
                    \* "dead": the process has exited;  "start": main has not
                    \* yet loaded the configuration
    idx,            \* position of checkFeeds in cfg.Feeds
    k,              \* position of processExistingFeed in items
    items,          \* result.Items of the feed being delivered
    cycle,          \* poll cycles started so far
    nextTick,       \* when the ticker fires next; NoTime before it is created
    budget,         \* store errors and terminations still to come
    emails,         \* history: successful SendEmail calls per (feed_url, guid)
    failedTx,       \* history: pairs whose last SendEmail failed
    unrecorded,     \* history: pairs mailed whose row was then not written
    last,           \* history: the latest processFeed call
    goarch,         \* the build target
    catalog,        \* the documents the servers may serve
    bkIn,           \* arguments of a calculateBackoff call
    bkOut,          \* and its result
    streak,         \* history: failed polls of a feed since its last Success or 304
    visited,        \* history: the feeds processFeed was called for in this cycle
    running,        \* history: checkFeeds calls in progress
    horizon,        \* the number of poll cycles observed
    stIn,           \* arguments of a MarkItemSent call
    stOut,          \* and its result
    config,         \* the environment and config.yaml the program is started with
    db,             \* "closed" until Initialize has opened the database
    lastFetch       \* history: per feed, when its latest fetch was issued and
                    \* whether the metadata write after it succeeded

vars == <<now, feed_metadata, sent_items, pc, idx, k, items, cycle, nextTick,
          budget, emails, failedTx, unrecorded, last, goarch, catalog, bkIn, bkOut,
          streak, visited, running, horizon, stIn, stOut, config, db, lastFetch>>

Pairs == FeedURLs \X GUIDs
FetchSecs == {0}
\* the seconds a SendEmail call takes: smtp.SendMail sets no deadline, and
\* with the "slow" catalog a call may outlast two tick periods
SlowSend == 2 * StandardIntervalSecs + 100
SendSecs(cat) == IF cat = "slow" THEN {0, SlowSend} ELSE {0}
Downtimes == {5, 200}

NoCall == [status |-> 0, retryAfter |-> NoHeader, errorCount |-> 0, now |-> 0]
NoStoreCall == [si |-> {}, feedURL |-> "", itemGUID |-> "", t |-> 0, message |-> ""]
NoStoreResult == [si |-> {}, err |-> FALSE, called |-> FALSE]

\* What is remembered of a processFeed call.
\*   step: "mderr" GetFeedMetadata failed, "skip" not due, "fail" the fetch
\*   returned an error, "notmod" 304, "empty" no items, "haserr" HasFeedItems
\*   failed, "new" / "existing" the delivery branch taken
\*   storeErr: a Store call of this processFeed call has returned an error
\*   afterErr: after that error the call went on to attempt a notification
\*   or a Store write
\*   offerSeq: the GUIDs handed to SendEmail, in the order of the calls
\*   x: the HTTP exchange of the fetch, when one was issued
\*   prev: the feed's lastFetch entry before this call issued its fetch
NoFetch == [at |-> NoTime, wrote |-> FALSE]
NoLast ==
    [feed |-> "", step |-> "none", done |-> TRUE, t0 |-> 0, at |-> 0,
     pre |-> NoRow, preSent |-> {}, retry |-> {}, upsertErr |-> FALSE,
     status |-> 0, lm |-> "", et |-> "", ra |-> NoHeader,
     items |-> <<>>, offered |-> {}, notified |-> <<>>,
     storeErr |-> FALSE, afterErr |-> FALSE, offerSeq |-> <<>>,
     x |-> NetworkError, prev |-> NoFetch]

Init ==
    /\ now = 0
    /\ feed_metadata = [f \in FeedURLs |-> NoRow]
    /\ sent_items = {}
    /\ pc = "feed"
    /\ idx = 1
    /\ k = 0
    /\ items = <<>>
    /\ cycle = 1
    /\ nextTick = NoTime
    /\ budget = 0
    /\ emails = [p \in Pairs |-> 0]
    /\ failedTx = {}
    /\ unrecorded = {}
    /\ last = NoLast
    /\ goarch = "amd64"
    /\ catalog = "small"
    /\ bkIn = NoCall
    /\ bkOut = NoTime
    /\ streak = [f \in FeedURLs |-> 0]
    /\ visited = <<>>
    /\ running = 1
    /\ horizon = MaxCycles
    /\ stIn = NoStoreCall
    /\ stOut = NoStoreResult
    /\ config = ValidConfig
    /\ db = "open"
    /\ lastFetch = [f \in FeedURLs |-> NoFetch]

SentGUIDs(si, feedURL) == {r.item_guid : r \in {q \in si : q.feed_url = feedURL}}

\* main.go checkFeeds: processFeed has returned at time t; the loop goes on to
\* the next feed, or the cycle ends (main creates the ticker after the first)
Return(t) ==
    IF idx < Len(Feeds)
    THEN /\ pc' = "feed"
         /\ idx' = idx + 1
         /\ UNCHANGED <<nextTick, running>>
    ELSE /\ pc' = "idle"
         /\ idx' = 0
         /\ nextTick' = IF nextTick = NoTime THEN t + StandardIntervalSecs ELSE nextTick
         /\ running' = running - 1

\* main.go processFeed, the due check: TRUE when the feed is skipped
NotDueOneMinute(metadata, t) ==
    \/ (metadata.next_check_after # NoTime /\ t < metadata.next_check_after)
    \/ t - metadata.last_checked < 60
NotDueNextCheckOnly(metadata, t) ==
    metadata.next_check_after # NoTime /\ t < metadata.next_check_after
NotDue(metadata, t) ==
    \/ (metadata.next_check_after # NoTime /\ t < metadata.next_check_after)
    \/ t - metadata.last_checked < StandardIntervalSecs

\* main.go processFeed: GetFeedMetadata returns an error
GetMetadataFailsEndsCycle ==
    /\ pc = "feed"
    /\ budget > 0
    /\ budget' = budget - 1
    /\ last' = [NoLast EXCEPT !.feed = Feeds[idx], !.step = "mderr", !.t0 = now,
                              !.storeErr = TRUE,
                              !.pre = feed_metadata[Feeds[idx]],
                              !.preSent = SentGUIDs(sent_items, Feeds[idx])]
    /\ visited' = Append(visited, Feeds[idx])
    /\ pc' = "idle"
    /\ idx' = 0
    /\ nextTick' = IF nextTick = NoTime THEN now + StandardIntervalSecs ELSE nextTick
    /\ running' = running - 1
    /\ UNCHANGED <<now, feed_metadata, sent_items, k, items, cycle, emails,
                   failedTx, unrecorded, goarch, catalog, bkIn, bkOut, streak,
                   horizon, stIn, stOut, config, db, lastFetch>>
GetMetadataFails ==
    /\ pc = "feed"
    /\ budget > 0
    /\ budget' = budget - 1
    /\ last' = [NoLast EXCEPT !.feed = Feeds[idx], !.step = "mderr", !.t0 = now,
                              !.storeErr = TRUE,
                              !.pre = feed_metadata[Feeds[idx]],
                              !.preSent = SentGUIDs(sent_items, Feeds[idx])]
    /\ visited' = Append(visited, Feeds[idx])
    /\ Return(now)
    /\ UNCHANGED <<now, feed_metadata, sent_items, k, items, cycle, emails,
                   failedTx, unrecorded, goarch, catalog, bkIn, bkOut, streak,
                   horizon, stIn, stOut, config, db, lastFetch>>

\* main.go processFeed: the feed is not due
SkipFeedRecordsCheck ==
    /\ pc = "feed"
    /\ LET feedURL == Feeds[idx]
           metadata == GetFeedMetadata(feed_metadata, feedURL)
       IN  /\ metadata.exists
           /\ NotDue(metadata, now)
           /\ feed_metadata' = [feed_metadata EXCEPT ![feedURL].last_checked = now]
           /\ last' = [NoLast EXCEPT !.feed = feedURL, !.step = "skip", !.t0 = now,
                                     !.pre = metadata,
                                     !.preSent = SentGUIDs(sent_items, feedURL)]
    /\ visited' = Append(visited, Feeds[idx])
    /\ Return(now)
    /\ UNCHANGED <<now, sent_items, k, items, cycle, budget, emails,
                   failedTx, unrecorded, goarch, catalog, bkIn, bkOut, streak,
                   horizon, stIn, stOut, config, db, lastFetch>>
SkipFeed ==
    /\ pc = "feed"
    /\ LET feedURL == Feeds[idx]
           metadata == GetFeedMetadata(feed_metadata, feedURL)
       IN  /\ metadata.exists
           /\ NotDue(metadata, now)
           /\ last' = [NoLast EXCEPT !.feed = feedURL, !.step = "skip", !.t0 = now,
                                     !.pre = metadata,
                                     !.preSent = SentGUIDs(sent_items, feedURL)]
    /\ visited' = Append(visited, Feeds[idx])
    /\ Return(now)
    /\ UNCHANGED <<now, feed_metadata, sent_items, k, items, cycle, budget, emails,
                   failedTx, unrecorded, goarch, catalog, bkIn, bkOut, streak,
                   horizon, stIn, stOut, config, db, lastFetch>>

\* main.go processFeed, failure path: what is upserted after a failed fetch
FailureRowKeepsCount(metadata, result, t, arch) ==
    LET status == IF result.nil THEN 0 ELSE result.StatusCode
        retryAfter == IF result.nil THEN NoHeader ELSE result.RetryAfter
        ec == IF metadata.exists THEN metadata.error_count ELSE 0
    IN  [lastModified |-> IF metadata.exists THEN metadata.last_modified ELSE "",
         etag |-> IF metadata.exists THEN metadata.etag ELSE "",
         status |-> status, errorCount |-> ec,
         nextCheck |-> calculateBackoff(status, retryAfter, ec, t, arch)]
FailureRowNewValidators(metadata, result, t, arch) ==
    LET status == IF result.nil THEN 0 ELSE result.StatusCode
        retryAfter == IF result.nil THEN NoHeader ELSE result.RetryAfter
        newErrorCount == (IF metadata.exists THEN metadata.error_count ELSE 0) + 1
    IN  [lastModified |-> IF result.nil THEN "" ELSE result.LastModified,
         etag |-> IF result.nil THEN "" ELSE result.ETag,
         status |-> status, errorCount |-> newErrorCount,
         nextCheck |-> calculateBackoff(status, retryAfter, newErrorCount, t, arch)]
FailureRow(metadata, result, t, arch) ==
    LET status == IF result.nil THEN 0 ELSE result.StatusCode
        retryAfter == IF result.nil THEN NoHeader ELSE result.RetryAfter
        newErrorCount == (IF metadata.exists THEN metadata.error_count ELSE 0) + 1
    IN  [lastModified |-> IF metadata.exists THEN metadata.last_modified ELSE "",
         etag |-> IF metadata.exists THEN metadata.etag ELSE "",
         status |-> status, errorCount |-> newErrorCount,
         nextCheck |-> calculateBackoff(status, retryAfter, newErrorCount, t, arch)]

\* main.go processFeed, success path: what is upserted after Success or 304
SuccessRowStatusOK(metadata, result, t) ==
    [lastModified |-> result.LastModified, etag |-> result.ETag,
     status |-> StatusOK, errorCount |-> 0,
     nextCheck |-> t + StandardIntervalSecs]
SuccessRow(metadata, result, t) ==
    [lastModified |-> result.LastModified, etag |-> result.ETag,
     status |-> result.StatusCode, errorCount |-> 0,
     nextCheck |-> t + StandardIntervalSecs]

\* What processFeed remembers when it issues a fetch
Polled(feedURL, metadata, x, t0, t1, upsertOK) ==
    [NoLast EXCEPT !.feed = feedURL, !.t0 = t0, !.at = t1, !.pre = metadata,
                   !.preSent = SentGUIDs(sent_items, feedURL),
                   !.retry = {g \in GUIDs : <<feedURL, g>> \in failedTx},
                   !.upsertErr = ~upsertOK,
                   !.storeErr = ~upsertOK,
                   !.x = x,
                   !.prev = lastFetch[feedURL],
                   !.status = IF x.neterr THEN 0 ELSE x.status,
                   !.lm = IF x.neterr THEN "" ELSE x.lastModified,
                   !.et = IF x.neterr THEN "" ELSE x.etag,
                   !.ra = IF x.neterr THEN NoHeader ELSE x.retryAfter]

\* main.go processFeed: the feed is due and FetchFeed returns an error
PollFails ==
    /\ pc = "feed"
    /\ \E x \in ExchangesOf(Feeds[idx], catalog), el \in FetchSecs, upsertOK \in BOOLEAN :
        LET feedURL == Feeds[idx]
            metadata == GetFeedMetadata(feed_metadata, feedURL)
            result == FetchFeed(x)
            t1 == now + el
            row == FailureRow(metadata, result, t1, goarch)
        IN  /\ IF metadata.exists THEN ~NotDue(metadata, now) ELSE TRUE
            /\ result.err
            /\ (IF upsertOK THEN 0 ELSE 1) <= budget
            /\ now' = t1
            /\ feed_metadata' =
                 IF upsertOK
                 THEN UpsertFeedMetadata(feed_metadata, feedURL, row.lastModified,
                         row.etag, row.status, row.errorCount, row.nextCheck, t1)
                 ELSE feed_metadata
            /\ budget' = IF upsertOK THEN budget ELSE budget - 1
            /\ last' = [Polled(feedURL, metadata, x, now, t1, upsertOK)
                           EXCEPT !.step = "fail"]
            /\ streak' = [streak EXCEPT ![feedURL] = @ + 1]
            /\ lastFetch' = [lastFetch EXCEPT ![feedURL] = [at |-> now, wrote |-> upsertOK]]
            /\ Return(t1)
    /\ visited' = Append(visited, Feeds[idx])
    /\ UNCHANGED <<sent_items, k, items, cycle, emails, failedTx, unrecorded,
                   goarch, catalog, bkIn, bkOut,
                   horizon, stIn, stOut, config, db>>

\* main.go processFeed: the feed is due and FetchFeed returns Success or 304
PollSucceeds ==
    /\ pc = "feed"
    /\ \E x \in ExchangesOf(Feeds[idx], catalog), el \in FetchSecs, upsertOK \in BOOLEAN, hasOK \in BOOLEAN :
        LET feedURL == Feeds[idx]
            metadata == GetFeedMetadata(feed_metadata, feedURL)
            result == FetchFeed(x)
            t1 == now + el
            row == SuccessRow(metadata, result, t1)
            stop == result.NotModified \/ Len(result.Items) = 0
            nfaults == (IF upsertOK THEN 0 ELSE 1) + (IF hasOK THEN 0 ELSE 1)
            step == IF result.NotModified THEN "notmod"
                    ELSE IF Len(result.Items) = 0 THEN "empty"
                    ELSE IF ~hasOK THEN "haserr"
                    ELSE IF HasFeedItems(sent_items, feedURL) THEN "existing"
                    ELSE "new"
        IN  /\ IF metadata.exists THEN ~NotDue(metadata, now) ELSE TRUE
            /\ ~result.err
            /\ stop => hasOK
            /\ nfaults <= budget
            /\ now' = t1
            /\ feed_metadata' =
                 IF upsertOK
                 THEN UpsertFeedMetadata(feed_metadata, feedURL, row.lastModified,
                         row.etag, row.status, row.errorCount, row.nextCheck, t1)
                 ELSE feed_metadata
            /\ budget' = budget - nfaults
            /\ last' = [Polled(feedURL, metadata, x, now, t1, upsertOK)
                           EXCEPT !.step = step,
                                  !.storeErr = ~upsertOK \/ ~hasOK,
                                  !.items = result.Items,
                                  !.done = step \notin {"new", "existing"}]
            /\ IF step \in {"new", "existing"}
               THEN /\ pc' = step
                    /\ items' = result.Items
                    /\ k' = 1
                    /\ UNCHANGED <<idx, nextTick, running>>
               ELSE /\ Return(t1)
                    /\ UNCHANGED <<items, k>>
            /\ streak' = [streak EXCEPT ![feedURL] = 0]
            /\ lastFetch' = [lastFetch EXCEPT ![feedURL] = [at |-> now, wrote |-> upsertOK]]
    /\ visited' = Append(visited, Feeds[idx])
    /\ UNCHANGED <<sent_items, cycle, emails, failedTx, unrecorded, goarch, catalog, bkIn, bkOut,
                   horizon, stIn, stOut, config, db>>

(***************************************************************************)
(* Delivery.                                                               *)
(***************************************************************************)
\* How a sendItem call can go: "txfail" SendEmail returns an error; "ok" the
\* mail is sent and the row written; "markerr" the mail is sent and
\* MarkItemSent returns an error; "killed" the mail is sent and the process
\* is terminated before MarkItemSent.
SendOutcomes == {"ok", "txfail", "markerr", "killed"}
\* With the "steady" catalog the mail server refuses a message only while no
\* refused message is waiting to be delivered.
SendOutcomesIn(cat, failed) ==
    IF cat = "steady" /\ failed # {} THEN SendOutcomes \ {"txfail"} ELSE SendOutcomes

\* main.go sendItem: the table after the call, whether SendEmail succeeded,
\* the seconds slept, whether the process died in it, the faults it met
sendItemNoMark(si, feedURL, item, o, t) ==
    [si |-> si, mailed |-> o # "txfail", slept |-> IF o = "ok" THEN 1 ELSE 0,
     killed |-> o = "killed", fault |-> IF o \in {"markerr", "killed"} THEN 1 ELSE 0]
sendItemMarksAlways(si, feedURL, item, o, t) ==
    [si |-> IF o \in {"ok", "txfail"} THEN MarkItemSent(si, feedURL, item.GUID, t) ELSE si,
     mailed |-> o # "txfail", slept |-> IF o = "ok" THEN 1 ELSE 0,
     killed |-> o = "killed", fault |-> IF o \in {"markerr", "killed"} THEN 1 ELSE 0]
sendItem(si, feedURL, item, o, t) ==
    [si |-> IF o = "ok" THEN MarkItemSent(si, feedURL, item.GUID, t) ELSE si,
     mailed |-> o # "txfail", slept |-> IF o = "ok" THEN 1 ELSE 0,
     killed |-> o = "killed", fault |-> IF o \in {"markerr", "killed"} THEN 1 ELSE 0]

\* main.go processNewFeed, the loop: every item whose GUID differs from the
\* chosen one is marked sent; failSet holds the positions whose MarkItemSent
\* returns an error
RECURSIVE markOthers(_, _, _, _, _, _, _)
markOthers(si, feedURL, its, i, guid, failSet, t) ==
    IF i > Len(its) THEN si
    ELSE IF its[i].GUID # guid /\ i \notin failSet
    THEN markOthers(MarkItemSent(si, feedURL, its[i].GUID, t), feedURL, its,
                    i + 1, guid, failSet, t)
    ELSE markOthers(si, feedURL, its, i + 1, guid, failSet, t)

\* The history after sendItem was called for (feedURL, guid)
Histories(feedURL, guid, o, s) ==
    /\ emails' = IF s.mailed
                 THEN [emails EXCEPT ![<<feedURL, guid>>] = @ + 1]
                 ELSE emails
    /\ failedTx' = IF o = "txfail"
                   THEN failedTx \cup {<<feedURL, guid>>}
                   ELSE failedTx \ {<<feedURL, guid>>}
    /\ unrecorded' = IF o \in {"markerr", "killed"}
                     THEN unrecorded \cup {<<feedURL, guid>>}
                     ELSE unrecorded

\* main.go processNewFeed
ProcessNewFeed ==
    /\ pc = "new"
    /\ \E o \in SendOutcomesIn(catalog, failedTx), failSet \in SUBSET (1..Len(items)), d \in SendSecs(catalog) :
        LET feedURL == Feeds[idx]
            mostRecent == items[GetMostRecentItem(items)]
            s == sendItem(sent_items, feedURL, mostRecent, o, now + d)
            t1 == now + d + s.slept
            nfaults == s.fault + Cardinality(failSet)
            others == {i \in 1..Len(items) : items[i].GUID # mostRecent.GUID}
        IN  /\ \A i \in failSet : items[i].GUID # mostRecent.GUID
            /\ s.killed => failSet = {}
            /\ nfaults <= budget
            /\ budget' = budget - nfaults
            /\ now' = t1
            /\ sent_items' =
                 IF s.killed THEN s.si
                 ELSE markOthers(s.si, feedURL, items, 1, mostRecent.GUID, failSet, t1)
            /\ Histories(feedURL, mostRecent.GUID, o, s)
            /\ last' = [last EXCEPT
                          !.offered = @ \cup {mostRecent.GUID},
                          !.offerSeq = Append(@, mostRecent.GUID),
                          !.notified = IF s.mailed THEN Append(@, mostRecent.GUID) ELSE @,
                          !.storeErr = @ \/ o = "markerr" \/ failSet # {},
                          !.afterErr = \/ last.storeErr
                                       \/ (o = "markerr" /\ others # {})
                                       \/ \E i \in failSet : \E j \in others : j > i,
                          !.done = ~s.killed]
            /\ IF s.killed
               THEN pc' = "dead" /\ running' = 0 /\ UNCHANGED <<idx, nextTick>>
               ELSE Return(t1)
    /\ items' = <<>>
    /\ k' = 0
    /\ UNCHANGED <<feed_metadata, cycle, goarch, catalog, bkIn, bkOut, streak, visited,
                   horizon, stIn, stOut, config, db, lastFetch>>

\* main.go processExistingFeed: one turn of the loop, for items[k];
\* isSentOK is FALSE when IsItemSent returns an error
ProcessExistingItem ==
    /\ pc = "existing"
    /\ \E isSentOK \in BOOLEAN, o \in SendOutcomesIn(catalog, failedTx), d \in SendSecs(catalog) :
        LET feedURL == Feeds[idx]
            item == items[k]
            isSent == IsItemSent(sent_items, feedURL, item.GUID)
            send == isSentOK /\ ~isSent
            s == sendItem(sent_items, feedURL, item, o, now + d)
            t1 == IF send THEN now + d + s.slept ELSE now
            nfaults == IF ~isSentOK THEN 1 ELSE IF send THEN s.fault ELSE 0
            killed == send /\ s.killed
            finished == ~killed /\ k = Len(items)
        IN  /\ ~send => (o = "ok" /\ d = 0)
            /\ nfaults <= budget
            /\ budget' = budget - nfaults
            /\ now' = t1
            /\ sent_items' = IF send THEN s.si ELSE sent_items
            /\ IF send THEN Histories(feedURL, item.GUID, o, s)
               ELSE UNCHANGED <<emails, failedTx, unrecorded>>
            /\ last' = [last EXCEPT
                          !.offered = IF send THEN @ \cup {item.GUID} ELSE @,
                          !.offerSeq = IF send THEN Append(@, item.GUID) ELSE @,
                          !.notified = IF send /\ s.mailed THEN Append(@, item.GUID) ELSE @,
                          !.storeErr = @ \/ ~isSentOK \/ (send /\ o = "markerr"),
                          !.afterErr = @ \/ (last.storeErr /\ send),
                          !.done = finished]
            /\ IF killed
               THEN /\ pc' = "dead" /\ items' = <<>> /\ k' = 0 /\ running' = 0
                    /\ UNCHANGED <<idx, nextTick>>
               ELSE IF finished
               THEN Return(t1) /\ items' = <<>> /\ k' = 0
               ELSE k' = k + 1 /\ UNCHANGED <<pc, idx, nextTick, items, running>>
    /\ UNCHANGED <<feed_metadata, cycle, goarch, catalog, bkIn, bkOut, streak, visited,
                   horizon, stIn, stOut, config, db, lastFetch>>

(***************************************************************************)
(* main: the ticker, termination and restart.                              *)
(***************************************************************************)
\* time.Ticker: the channel holds one tick and the ticks a busy receiver
\* misses are dropped; the tick after the one at t, seen from clock c
RECURSIVE NextTickAfter(_, _)
NextTickAfter(t, c) ==
    IF t + StandardIntervalSecs > c THEN t + StandardIntervalSecs
    ELSE NextTickAfter(t + StandardIntervalSecs, c)

\* main.go main: the ticker goroutine receives a tick, at once when one is
\* waiting in the channel, and calls checkFeeds
TickOverlapping ==
    /\ pc # "dead"
    /\ nextTick # NoTime
    /\ cycle < horizon
    /\ now' = IF now > nextTick THEN now ELSE nextTick
    /\ nextTick' = NextTickAfter(nextTick, now)
    /\ pc' = "feed"
    /\ idx' = 1
    /\ cycle' = cycle + 1
    /\ running' = running + 1
    /\ visited' = <<>>
    /\ UNCHANGED <<feed_metadata, sent_items, k, items, budget, emails, failedTx,
                   unrecorded, last, goarch, catalog, bkIn, bkOut, streak,
                   horizon, stIn, stOut, config, db, lastFetch>>
Tick ==
    /\ pc = "idle"
    /\ cycle < horizon
    /\ now' = IF now > nextTick THEN now ELSE nextTick
    /\ nextTick' = NextTickAfter(nextTick, now)
    /\ pc' = "feed"
    /\ idx' = 1
    /\ cycle' = cycle + 1
    /\ running' = running + 1
    /\ visited' = <<>>
    /\ UNCHANGED <<feed_metadata, sent_items, k, items, budget, emails, failedTx,
                   unrecorded, last, goarch, catalog, bkIn, bkOut, streak,
                   horizon, stIn, stOut, config, db, lastFetch>>

\* The ticker left to run without end.  The program only compares times with
\* the clock, so from the second tick on the clock and every stored time are
\* read one tick period back, which makes the cycle of every tick start at
\* the same reading; a stored time that is more than 60 minutes old at the
\* tick reads 0, which the due check cannot tell from its true value.  The
\* cycle count stays at 2 from the first tick on.
RebaseTime(t, d) == IF t = NoTime THEN NoTime ELSE IF t < d THEN 0 ELSE t - d
RebaseRow(row, d) ==
    IF row.exists
    THEN [row EXCEPT !.last_checked = RebaseTime(@, d),
                     !.next_check_after = RebaseTime(@, d)]
    ELSE row
TickRebased ==
    /\ pc = "idle"
    /\ LET d == IF cycle >= 2 THEN StandardIntervalSecs ELSE 0
           t == IF now > nextTick THEN now ELSE nextTick
       IN  /\ now' = t - d
           /\ nextTick' = NextTickAfter(nextTick, now) - d
           /\ feed_metadata' = [f \in FeedURLs |-> RebaseRow(feed_metadata[f], d)]
           /\ sent_items' = {[r EXCEPT !.sent_at = RebaseTime(@, d)] : r \in sent_items}
           /\ last' = [last EXCEPT !.t0 = RebaseTime(@, d), !.at = RebaseTime(@, d),
                                   !.pre = RebaseRow(@, d),
                                   !.prev = [@ EXCEPT !.at = RebaseTime(@, d)]]
           /\ lastFetch' = [f \in FeedURLs |->
                              [lastFetch[f] EXCEPT !.at = RebaseTime(@, d)]]
    /\ pc' = "feed"
    /\ idx' = 1
    /\ cycle' = 2
    /\ running' = running + 1
    /\ visited' = <<>>
    /\ UNCHANGED <<k, items, budget, emails, failedTx, unrecorded, goarch, catalog,
                   bkIn, bkOut, streak, horizon, stIn, stOut, config, db>>

\* main.go main: SIGINT or SIGTERM arrives and the process exits
Kill ==
    /\ pc # "dead"
    /\ budget > 0
    /\ budget' = budget - 1
    /\ pc' = "dead"
    /\ items' = <<>>
    /\ k' = 0
    /\ running' = 0
    /\ UNCHANGED <<now, feed_metadata, sent_items, idx, cycle, nextTick, emails,
                   failedTx, unrecorded, last, goarch, catalog, bkIn, bkOut, streak, visited,
                   horizon, stIn, stOut, config, db, lastFetch>>

\* main.go main: the program is started again on the same database
Restart ==
    /\ pc = "dead"
    /\ cycle < horizon
    /\ \E d \in Downtimes : now' = now + d
    /\ pc' = "feed"
    /\ idx' = 1
    /\ cycle' = cycle + 1
    /\ nextTick' = NoTime
    /\ running' = 1
    /\ visited' = <<>>
    /\ UNCHANGED <<feed_metadata, sent_items, k, items, budget, emails, failedTx,
                   unrecorded, last, goarch, catalog, bkIn, bkOut, streak,
                   horizon, stIn, stOut, config, db, lastFetch>>

\* The program with a store that answers every call, left running.
Next ==
    \/ SkipFeed
    \/ PollFails
    \/ PollSucceeds
    \/ ProcessNewFeed
    \/ ProcessExistingItem
    \/ Tick

Spec == Init /\ [][Next]_vars

\* The same with up to MaxFaults store errors and terminations.
InitFaults ==
    /\ now = 0
    /\ feed_metadata = [f \in FeedURLs |-> NoRow]
    /\ sent_items = {}
    /\ pc = "feed"
    /\ idx = 1
    /\ k = 0
    /\ items = <<>>
    /\ cycle = 1
    /\ nextTick = NoTime
    /\ budget = MaxFaults
    /\ emails = [p \in Pairs |-> 0]
    /\ failedTx = {}
    /\ unrecorded = {}
    /\ last = NoLast
    /\ goarch = "amd64"
    /\ catalog = "small"
    /\ bkIn = NoCall
    /\ bkOut = NoTime
    /\ streak = [f \in FeedURLs |-> 0]
    /\ visited = <<>>
    /\ running = 1
    /\ horizon = MaxFaultCycles
    /\ stIn = NoStoreCall
    /\ stOut = NoStoreResult
    /\ config = ValidConfig
    /\ db = "open"
    /\ lastFetch = [f \in FeedURLs |-> NoFetch]

NextFaults ==
    \/ Next
    \/ GetMetadataFails
    \/ Kill
    \/ Restart

SpecFaults == InitFaults /\ [][NextFaults]_vars

\* The first poll cycle on an empty store, the first feed's server serving
\* documents of up to MaxNewItems entries.
InitFirstRun ==
    /\ now = 0
    /\ feed_metadata = [f \in FeedURLs |-> NoRow]
    /\ sent_items = {}
    /\ pc = "feed"
    /\ idx = 1
    /\ k = 0
    /\ items = <<>>
    /\ cycle = 1
    /\ nextTick = NoTime
    /\ budget = 0
    /\ emails = [p \in Pairs |-> 0]
    /\ failedTx = {}
    /\ unrecorded = {}
    /\ last = NoLast
    /\ goarch = "amd64"
    /\ catalog = "large"
    /\ bkIn = NoCall
    /\ bkOut = NoTime
    /\ streak = [f \in FeedURLs |-> 0]
    /\ visited = <<>>
    /\ running = 1
    /\ horizon = MaxCycles
    /\ stIn = NoStoreCall
    /\ stOut = NoStoreResult
    /\ config = ValidConfig
    /\ db = "open"
    /\ lastFetch = [f \in FeedURLs |-> NoFetch]

NextFirstRun ==
    \/ PollFails
    \/ PollSucceeds
    \/ ProcessNewFeed

SpecFirstRun == InitFirstRun /\ [][NextFirstRun]_vars

\* The program left running with a mail server whose answers may take longer
\* than two tick periods.
InitTicker ==
    /\ now = 0
    /\ feed_metadata = [f \in FeedURLs |-> NoRow]
    /\ sent_items = {}
    /\ pc = "feed"
    /\ idx = 1
    /\ k = 0
    /\ items = <<>>
    /\ cycle = 1
    /\ nextTick = NoTime
    /\ budget = 0
    /\ emails = [p \in Pairs |-> 0]
    /\ failedTx = {}
    /\ unrecorded = {}
    /\ last = NoLast
    /\ goarch = "amd64"
    /\ catalog = "slow"
    /\ bkIn = NoCall
    /\ bkOut = NoTime
    /\ streak = [f \in FeedURLs |-> 0]
    /\ visited = <<>>
    /\ running = 1
    /\ horizon = MaxCycles
    /\ stIn = NoStoreCall
    /\ stOut = NoStoreResult
    /\ config = ValidConfig
    /\ db = "open"
    /\ lastFetch = [f \in FeedURLs |-> NoFetch]

NextTicker ==
    \/ SkipFeed
    \/ PollFails
    \/ PollSucceeds
    \/ ProcessNewFeed
    \/ ProcessExistingItem
    \/ Tick

SpecTicker == InitTicker /\ [][NextTicker]_vars

\* The program left running without end while every feed's document stays
\* unchanged, the store answers every call and the mail server refuses at
\* most one message at a time; every step that can be taken is taken.
InitRetry ==
    /\ now = 0
    /\ feed_metadata = [f \in FeedURLs |-> NoRow]
    /\ sent_items = {}
    /\ pc = "feed"
    /\ idx = 1
    /\ k = 0
    /\ items = <<>>
    /\ cycle = 1
    /\ nextTick = NoTime
    /\ budget = 0
    /\ emails = [p \in Pairs |-> 0]
    /\ failedTx = {}
    /\ unrecorded = {}
    /\ last = NoLast
    /\ goarch = "amd64"
    /\ catalog = "steady"
    /\ bkIn = NoCall
    /\ bkOut = NoTime
    /\ streak = [f \in FeedURLs |-> 0]
    /\ visited = <<>>
    /\ running = 1
    /\ horizon = MaxCycles
    /\ stIn = NoStoreCall
    /\ stOut = NoStoreResult
    /\ config = ValidConfig
    /\ db = "open"
    /\ lastFetch = [f \in FeedURLs |-> NoFetch]

NextRetry ==
    \/ SkipFeed
    \/ PollSucceeds
    \/ ProcessNewFeed
    \/ ProcessExistingItem
    \/ TickRebased

SpecRetry == InitRetry /\ [][NextRetry]_vars /\ WF_vars(NextRetry)

\* The program polling feeds that carry the same items under the same GUIDs;
\* the store answers every call.
InitIsolation ==
    /\ now = 0
    /\ feed_metadata = [f \in FeedURLs |-> NoRow]
    /\ sent_items = {}
    /\ pc = "feed"
    /\ idx = 1
    /\ k = 0
    /\ items = <<>>
    /\ cycle = 1
    /\ nextTick = NoTime
    /\ budget = 0
    /\ emails = [p \in Pairs |-> 0]
    /\ failedTx = {}
    /\ unrecorded = {}
    /\ last = NoLast
    /\ goarch = "amd64"
    /\ catalog = "shared"
    /\ bkIn = NoCall
    /\ bkOut = NoTime
    /\ streak = [f \in FeedURLs |-> 0]
    /\ visited = <<>>
    /\ running = 1
    /\ horizon = MaxCycles
    /\ stIn = NoStoreCall
    /\ stOut = NoStoreResult
    /\ config = ValidConfig
    /\ db = "open"
    /\ lastFetch = [f \in FeedURLs |-> NoFetch]

NextIsolation ==
    \/ SkipFeed
    \/ PollFails
    \/ PollSucceeds
    \/ ProcessNewFeed
    \/ ProcessExistingItem
    \/ Tick

SpecIsolation == InitIsolation /\ [][NextIsolation]_vars

(***************************************************************************)
(* Startup: main up to the first checkFeeds call.                          *)
(***************************************************************************)
\* config.go Load: err is TRUE when it returns an error, else cfg holds the
\* feeds and the three values read from the environment
LoadNoFeedsCheck(c) ==
    IF c.file = "missing" THEN [err |-> TRUE]
    ELSE IF c.file = "malformed" THEN [err |-> TRUE]
    ELSE IF c.GMAIL_ADDRESS = "" THEN [err |-> TRUE]
    ELSE IF c.GMAIL_APP_PASSWORD = "" THEN [err |-> TRUE]
    ELSE IF c.RECIPIENT_EMAIL = "" THEN [err |-> TRUE]
    ELSE [err |-> FALSE, Feeds |-> c.feeds, GmailAddress |-> c.GMAIL_ADDRESS,
          GmailAppPassword |-> c.GMAIL_APP_PASSWORD, RecipientEmail |-> c.RECIPIENT_EMAIL]
Load(c) ==
    IF c.file = "missing" THEN [err |-> TRUE]
    ELSE IF c.file = "malformed" THEN [err |-> TRUE]
    ELSE IF c.GMAIL_ADDRESS = "" THEN [err |-> TRUE]
    ELSE IF c.GMAIL_APP_PASSWORD = "" THEN [err |-> TRUE]
    ELSE IF c.RECIPIENT_EMAIL = "" THEN [err |-> TRUE]
    ELSE IF Len(c.feeds) = 0 THEN [err |-> TRUE]
    ELSE [err |-> FALSE, Feeds |-> c.feeds, GmailAddress |-> c.GMAIL_ADDRESS,
          GmailAppPassword |-> c.GMAIL_APP_PASSWORD, RecipientEmail |-> c.RECIPIENT_EMAIL]

\* What the program may be started with
Configs ==
    { Config(f, fs, a, pw, r) :
        f \in {"missing", "malformed", "ok"},
        fs \in {<<>>, <<Feeds[1]>>, Feeds},
        a \in {"", "sender"}, pw \in {"", "secret"}, r \in {"", "reader"} }

InitStartup ==
    /\ now = 0
    /\ feed_metadata = [f \in FeedURLs |-> NoRow]
    /\ sent_items = {}
    /\ pc = "start"
    /\ idx = 0
    /\ k = 0
    /\ items = <<>>
    /\ cycle = 0
    /\ nextTick = NoTime
    /\ budget = 0
    /\ emails = [p \in Pairs |-> 0]
    /\ failedTx = {}
    /\ unrecorded = {}
    /\ last = NoLast
    /\ goarch = "amd64"
    /\ catalog = "small"
    /\ bkIn = NoCall
    /\ bkOut = NoTime
    /\ streak = [f \in FeedURLs |-> 0]
    /\ visited = <<>>
    /\ running = 0
    /\ horizon = MaxCycles
    /\ stIn = NoStoreCall
    /\ stOut = NoStoreResult
    /\ config \in Configs
    /\ db = "closed"
    /\ lastFetch = [f \in FeedURLs |-> NoFetch]

\* main.go main, up to the call of checkFeeds: the logger is created, Load
\* and Initialize are called and an error of any of them is fatal
Main ==
    /\ pc = "start"
    /\ \E logOK \in BOOLEAN, dbOK \in BOOLEAN :
        LET loaded == Load(config)
        IN  IF ~logOK \/ loaded.err \/ ~dbOK
            THEN /\ (~logOK \/ loaded.err) => dbOK
                 /\ pc' = "dead"
                 /\ UNCHANGED <<db, idx, cycle, running>>
            ELSE /\ db' = "open"
                 /\ pc' = "feed"
                 /\ idx' = 1
                 /\ cycle' = 1
                 /\ running' = 1
    /\ UNCHANGED <<now, feed_metadata, sent_items, k, items, nextTick, budget, emails,
                   failedTx, unrecorded, last, goarch, catalog, bkIn, bkOut, streak,
                   visited, horizon, stIn, stOut, config, lastFetch>>

NextStartup == Main

SpecStartup == InitStartup /\ [][NextStartup]_vars

(***************************************************************************)
(* MarkItemSent on its own, on every table of up to four rows.             *)
(***************************************************************************)
StoreRows == {SentRow(f, g, 0) : f \in FeedURLs, g \in {"g1", "g2"}}
StoreCalls ==
    [si : SUBSET StoreRows, feedURL : FeedURLs, itemGUID : {"g1", "g2"},
     t : {5}, message : DriverMessages]

InitStore ==
    /\ now = 0
    /\ feed_metadata = [f \in FeedURLs |-> NoRow]
    /\ sent_items = {}
    /\ pc = "idle"
    /\ idx = 0
    /\ k = 0
    /\ items = <<>>
    /\ cycle = 1
    /\ nextTick = NoTime
    /\ budget = 0
    /\ emails = [p \in Pairs |-> 0]
    /\ failedTx = {}
    /\ unrecorded = {}
    /\ last = NoLast
    /\ goarch = "amd64"
    /\ catalog = "small"
    /\ bkIn = NoCall
    /\ bkOut = NoTime
    /\ streak = [f \in FeedURLs |-> 0]
    /\ visited = <<>>
    /\ running = 0
    /\ horizon = MaxCycles
    /\ stIn \in StoreCalls
    /\ stOut = NoStoreResult
    /\ config = ValidConfig
    /\ db = "open"
    /\ lastFetch = [f \in FeedURLs |-> NoFetch]

CallMarkItemSent ==
    /\ ~stOut.called
    /\ stOut' = [si |-> MarkItemSent(stIn.si, stIn.feedURL, stIn.itemGUID, stIn.t),
                 err |-> MarkItemSentErr(stIn.si, stIn.feedURL, stIn.itemGUID, stIn.message),
                 called |-> TRUE]
    /\ UNCHANGED <<now, feed_metadata, sent_items, pc, idx, k, items, cycle, nextTick,
                   budget, emails, failedTx, unrecorded, last, goarch, catalog, bkIn, bkOut,
                   streak, visited, running, horizon, stIn, config, db, lastFetch>>

NextStore == CallMarkItemSent

SpecStore == InitStore /\ [][NextStore]_vars

(***************************************************************************)
(* calculateBackoff on its own: every call processFeed can make.           *)
(***************************************************************************)
\* Retry-After values of the backoff calls: absent, 120, 0, -5, 90000 (25h),
\* 9223372037 (its nanoseconds exceed an int64), 10^20 (exceeds an int64),
\* not a number, a date 100 s ahead of the latest clock, a date in the past
BackoffRetryAfters ==
    { NoHeader,
      IntHeader(FALSE, <<1, 2, 0>>),
      IntHeader(FALSE, <<0>>),
      IntHeader(TRUE, <<5>>),
      IntHeader(FALSE, <<9, 0, 0, 0, 0>>),
      IntHeader(FALSE, <<9, 2, 2, 3, 3, 7, 2, 0, 3, 7>>),
      IntHeader(FALSE, <<1, 0, 0, 0, 0, 0, 0, 0, 0, 0, 0, 0, 0, 0, 0, 0, 0, 0, 0, 0, 0>>),
      JunkHeader,
      DateHeader(1100),
      DateHeader(10) }
BackoffStatuses == {0, StatusOK, StatusGone, StatusTooManyRequests, 500}
BackoffClocks == {50, 1000}
\* status 0 is a request that failed before any response: no header with it
BackoffCalls ==
    { c \in [status : BackoffStatuses, retryAfter : BackoffRetryAfters,
             errorCount : 1..MaxErrorCount, now : BackoffClocks] :
        c.status = 0 => c.retryAfter = NoHeader }

InitBackoff ==
    /\ now = 0
    /\ feed_metadata = [f \in FeedURLs |-> NoRow]
    /\ sent_items = {}
    /\ pc = "idle"
    /\ idx = 0
    /\ k = 0
    /\ items = <<>>
    /\ cycle = 1
    /\ nextTick = NoTime
    /\ budget = 0
    /\ emails = [p \in Pairs |-> 0]
    /\ failedTx = {}
    /\ unrecorded = {}
    /\ last = NoLast
    /\ goarch \in Arch
    /\ catalog = "small"
    /\ bkIn \in BackoffCalls
    /\ bkOut = NoTime
    /\ streak = [f \in FeedURLs |-> 0]
    /\ visited = <<>>
    /\ running = 0
    /\ horizon = MaxCycles
    /\ stIn = NoStoreCall
    /\ stOut = NoStoreResult
    /\ config = ValidConfig
    /\ db = "open"
    /\ lastFetch = [f \in FeedURLs |-> NoFetch]

CallBackoff ==
    /\ bkOut = NoTime
    /\ bkOut' = calculateBackoff(bkIn.status, bkIn.retryAfter, bkIn.errorCount,
                                 bkIn.now, goarch)
    /\ UNCHANGED <<now, feed_metadata, sent_items, pc, idx, k, items, cycle, nextTick,
                   budget, emails, failedTx, unrecorded, last, goarch, catalog, bkIn,
                   streak, visited, running, horizon, stIn, stOut, config, db, lastFetch>>

NextBackoff == CallBackoff

SpecBackoff == InitBackoff /\ [][NextBackoff]_vars

(***************************************************************************)
(* Properties of the polling engine.                                       *)
(***************************************************************************)
\* the latest processFeed call issued a fetch
Fetched == last.step \in {"fail", "notmod", "empty", "haserr", "new", "existing"}
\* the metadata row of the feed of the latest processFeed call
Row == feed_metadata[last.feed]
\* positions of the items that carry a publish time, and of the latest of them
Dated(its) == {i \in 1..Len(its) : its[i].Published # NoTime}
Latest(its) == {i \in Dated(its) : \A j \in Dated(its) : its[j].Published <= its[i].Published}

\* C1: at-most-once delivery.  Whatever the fetch outcomes and transmission
\* failures of the cycles so far, SendEmail has succeeded at most once for
\* every (feed_url, guid) pair.
C1_AtMostOnce == \A p \in Pairs : emails[p] <= 1

\* C1 witness: an item delivered in an earlier cycle is fetched again, twice in
\* one list, by a steady-state poll that has finished.
C1_Witness ==
    /\ last.step = "existing"
    /\ last.done
    /\ \E i, j \in 1..Len(last.items) :
          /\ i < j
          /\ last.items[i].GUID = last.items[j].GUID
          /\ last.items[i].GUID \in last.preSent
          /\ emails[<<last.feed, last.items[i].GUID>>] = 1

\* C2: first-run suppression.  When a feed without SentItem rows is polled
\* and the poll returns Success with at least one item, then once the feed is
\* processed at most one notification was sent, it is for an item with the
\* latest publish time, and every item with another GUID has a row in
\* sent_items and was never notified.
C2_FirstRunSuppression ==
    (last.done /\ last.status = StatusOK /\ Len(last.items) >= 1 /\ last.preSent = {}) =>
        /\ Len(last.notified) <= 1
        /\ \E i \in 1..Len(last.items) :
              /\ Dated(last.items) # {} => i \in Latest(last.items)
              /\ \A n \in 1..Len(last.notified) : last.notified[n] = last.items[i].GUID
              /\ \A j \in 1..Len(last.items) :
                    last.items[j].GUID # last.items[i].GUID =>
                        /\ IsItemSent(sent_items, last.feed, last.items[j].GUID)
                        /\ emails[<<last.feed, last.items[j].GUID>>] = 0

\* C2 witness: a new feed's first document lists items published at 1, 3 and
\* 2; only the second was notified and the other two have rows.
C2_Witness ==
    /\ last.done
    /\ last.preSent = {}
    /\ Len(last.items) = 3
    /\ last.items[1].Published = 1
    /\ last.items[2].Published = 3
    /\ last.items[3].Published = 2
    /\ last.notified = <<last.items[2].GUID>>
    /\ IsItemSent(sent_items, last.feed, last.items[1].GUID)
    /\ IsItemSent(sent_items, last.feed, last.items[3].GUID)

\* C3: transmission-failure retry.  An item whose transmission failed has no
\* row in sent_items, and the next processFeed call that polls its feed
\* offers it to SendEmail again.
C3_RetriedOnNextPoll ==
    /\ \A p \in failedTx : ~IsItemSent(sent_items, p[1], p[2])
    /\ (last.done /\ Fetched) => last.retry \subseteq last.offered

\* C4: validator retention.  A poll that ends in 304 leaves no cached
\* non-empty ETag or Last-Modified empty, and a validator the 304 response
\* omits is stored as it was before the poll.
C4_NotModifiedKeepsValidators ==
    (last.status = StatusNotModified /\ last.pre.exists) =>
        /\ last.pre.etag # "" => Row.etag # ""
        /\ last.pre.last_modified # "" => Row.last_modified # ""
        /\ last.et = "" => Row.etag = last.pre.etag
        /\ last.lm = "" => Row.last_modified = last.pre.last_modified

\* C5: no delivery without fresh content.  When a poll ends in 304, or in
\* Success with no items, nothing is offered or notified for the feed and its
\* sent_items rows are those it had before the poll.
C5_NoDeliveryWithoutFreshContent ==
    (Fetched /\ (\/ last.status = StatusNotModified
                 \/ (last.status = StatusOK /\ last.step # "fail" /\ last.items = <<>>))) =>
        /\ last.offered = {}
        /\ last.notified = <<>>
        /\ SentGUIDs(sent_items, last.feed) = last.preSent

\* C5 witness: a 304 for a feed that has rows and an item whose transmission
\* failed earlier.
C5_Witness ==
    /\ last.status = StatusNotModified
    /\ last.preSent # {}
    /\ last.retry # {}

\* C6: due-check gating.  A feed with a metadata row whose next_check_after
\* is in the future, or whose last_checked is less than 60 minutes ago, is
\* skipped and no fetch is issued; a feed without a row is polled.
C6_DueCheckGating ==
    /\ (/\ last.step # "none"
        /\ last.pre.exists
        /\ \/ (last.pre.next_check_after # NoTime /\ last.t0 < last.pre.next_check_after)
           \/ last.t0 - last.pre.last_checked < 60 * 60) => last.step = "skip"
    /\ (last.step # "none" /\ ~last.pre.exists) => Fetched

\* C6 witness: a feed is skipped although its next_check_after has passed,
\* because it was checked less than 60 minutes ago.
C6_Witness ==
    /\ last.step = "skip"
    /\ last.pre.next_check_after <= last.t0
    /\ last.t0 - last.pre.last_checked < 60 * 60

(***************************************************************************)
(* Properties of the backoff policy.                                       *)
(***************************************************************************)
\* a Retry-After value that names no delay at clock t: absent, not a number,
\* zero or negative seconds, a date not in the future
Unusable(h, t) ==
    \/ h.kind \in {"none", "junk"}
    \/ (h.kind = "int" /\ (h.neg \/ \A i \in 1..Len(h.digits) : h.digits[i] = 0))
    \/ (h.kind = "date" /\ h.t <= t)
\* the decimal digits of a natural number
RECURSIVE Decimal(_)
Decimal(n) == IF n < 10 THEN <<n>> ELSE Append(Decimal(n \div 10), n % 10)

\* C7: backoff values.  For a failure other than Gone without a usable
\* Retry-After, error counts 1, 2 and 3 schedule the next check 60, 120 and
\* 240 minutes after now, and count 10 schedules it 1440 minutes after now.
C7_BackoffValues ==
    (bkOut # NoTime /\ bkIn.status # StatusGone /\ Unusable(bkIn.retryAfter, bkIn.now)) =>
        /\ bkIn.errorCount = 1 => bkOut - bkIn.now = 60 * 60
        /\ bkIn.errorCount = 2 => bkOut - bkIn.now = 120 * 60
        /\ bkIn.errorCount = 3 => bkOut - bkIn.now = 240 * 60
        /\ bkIn.errorCount = 10 => bkOut - bkIn.now = 1440 * 60

\* C7 witness: the tenth consecutive failure with status 500 and no
\* Retry-After is scheduled 24 hours out.
C7_Witness ==
    /\ bkOut # NoTime
    /\ bkIn.status = 500
    /\ bkIn.retryAfter = NoHeader
    /\ bkIn.errorCount = 10
    /\ bkOut = bkIn.now + 1440 * 60

\* C8: Retry-After precedence.  For a failure other than Gone, a Retry-After
\* of a positive integer n schedules the next check n seconds after now for
\* every error count, and a Retry-After date in the future schedules it at
\* that date.
C8_RetryAfterPrecedence ==
    (bkOut # NoTime /\ bkIn.status # StatusGone) =>
        /\ (/\ bkIn.retryAfter.kind = "int"
            /\ ~bkIn.retryAfter.neg
            /\ bkIn.retryAfter.digits[1] # 0) =>
                /\ bkOut >= bkIn.now
                /\ Decimal(bkOut - bkIn.now) = bkIn.retryAfter.digits
        /\ (bkIn.retryAfter.kind = "date" /\ bkIn.retryAfter.t > bkIn.now) =>
                bkOut = bkIn.retryAfter.t

\* C9: Gone handling.  A poll that ends with status 410 stores a
\* next_check_after at least 300 days after the poll, whatever the error
\* count and the Retry-After header, and a feed whose last poll ended with
\* 410 is skipped in every cycle before that time.
C9_GoneDisablesFeed ==
    /\ (last.step = "fail" /\ last.status = StatusGone) =>
          /\ Row.exists
          /\ Row.next_check_after >= last.at + 300 * 24 * 60 * 60
    /\ (/\ last.step # "none"
        /\ last.pre.exists
        /\ last.pre.last_poll_status = StatusGone) =>
          /\ last.pre.next_check_after >= last.pre.last_checked + 300 * 24 * 60 * 60
          /\ last.t0 < last.pre.next_check_after => last.step = "skip"

\* C9 witness: a feed whose second consecutive failure was a 410 is skipped
\* by a cycle that starts an hour or more after that poll.
C9_Witness ==
    /\ last.step = "skip"
    /\ last.pre.last_poll_status = StatusGone
    /\ last.pre.error_count >= 2
    /\ last.t0 - last.pre.last_checked >= 60 * 60

\* C10: failed polls keep cached validators.  After a poll that ends in a
\* failure the feed's row holds the etag and last_modified it held before the
\* poll, whatever headers the response carried, and empty ones when the feed
\* had no row.
C10_FailedPollKeepsValidators ==
    last.step = "fail" =>
        /\ Row.exists
        /\ Row.etag = (IF last.pre.exists THEN last.pre.etag ELSE "")
        /\ Row.last_modified = (IF last.pre.exists THEN last.pre.last_modified ELSE "")

\* C10 witness: an error response carrying validators of its own reaches a
\* feed with cached validators, and the cached ones are still stored.
C10_Witness ==
    /\ last.step = "fail"
    /\ last.pre.exists
    /\ last.pre.etag # ""
    /\ last.et # ""
    /\ last.et # last.pre.etag
    /\ Row.etag = last.pre.etag

(***************************************************************************)
(* Properties of the failure counter, the cycle and the process.           *)
(***************************************************************************)
\* C11: error_count counts consecutive failures.  In every state a feed's
\* persisted error_count is the number of failed polls of the feed since its
\* last Success or 304 poll (a feed never polled has no row); a failed poll
\* leaves it one above the count read before the poll, a Success or 304 poll
\* leaves it 0, and a skipped call leaves it as it was.
C11_ErrorCountIsFailureStreak ==
    /\ \A f \in FeedURLs :
          IF feed_metadata[f].exists
          THEN feed_metadata[f].error_count = streak[f]
          ELSE streak[f] = 0
    /\ last.step = "fail" =>
          Row.error_count = (IF last.pre.exists THEN last.pre.error_count ELSE 0) + 1
    /\ last.step \in {"notmod", "empty", "haserr", "new", "existing"} =>
          Row.error_count = 0
    /\ last.step = "skip" => Row.error_count = last.pre.error_count

\* C11 witness: a feed failed in two cycles running and is skipped in the
\* third with the count still 2.
C11_Witness ==
    /\ last.step = "skip"
    /\ streak[last.feed] = 2
    /\ Row.error_count = 2
    /\ last.pre.error_count = 2

\* the first n feeds of the configuration
FeedsUpTo(n) == SubSeq(Feeds, 1, n)

\* C12: cycle completeness under errors.  With fetch errors, transmission
\* errors and Store errors occurring, the feeds processFeed was called for
\* in a cycle are at every moment the configured feeds up to the current
\* one, each once and in configuration order, and all of them when the cycle
\* has ended; and the process never exits in the step in which a processFeed
\* call returns, whatever error the call met.
C12_CycleCompleteness ==
    /\ [](/\ pc = "idle" => visited = Feeds
          /\ pc = "feed" => visited = FeedsUpTo(idx - 1)
          /\ pc \in {"new", "existing"} => visited = FeedsUpTo(idx))
    /\ [][(pc # "dead" /\ pc' = "dead") => (last' = last \/ ~last'.done)]_vars

\* C12 witness: the first feed's call met a Store error in the first cycle
\* (it has no metadata row afterwards), the second feed was processed all
\* the same and the cycle has ended.
C12_Witness ==
    /\ pc = "idle"
    /\ cycle = 1
    /\ visited = Feeds
    /\ ~feed_metadata[Feeds[1]].exists
    /\ feed_metadata[Feeds[2]].exists

\* C13: a Store error aborts the feed.  Once a Store call of a processFeed
\* call has returned an error (GetFeedMetadata, the metadata upsert,
\* HasFeedItems, IsItemSent or MarkItemSent), the call attempts no further
\* notification and no further Store write; in particular, when the error
\* came before delivery nothing is offered to SendEmail and the feed's
\* sent_items rows stay as they were.
C13_StoreErrorAbortsFeed ==
    /\ last.storeErr => ~last.afterErr
    /\ (last.upsertErr \/ last.step \in {"mderr", "haserr"}) =>
          /\ last.offerSeq = <<>>
          /\ SentGUIDs(sent_items, last.feed) = last.preSent

\* C14: orderly stop.  A termination signal does not take effect in the
\* middle of a poll cycle: whenever the process has exited, the cycle that
\* was running has called processFeed for every configured feed and the
\* last of those calls has run to its end.
C14_OrderlyStop ==
    pc = "dead" => (visited = Feeds /\ last.done)

\* C15: sequential polling.  At every moment at most one checkFeeds call is
\* in progress, and one exactly while a feed is being processed; the only
\* processFeed call that has not run to its end is the one for the current
\* feed; and the ticker does not exist while the initial cycle runs, so
\* every later cycle starts after the initial one has ended.
C15_SequentialPolling ==
    /\ running <= 1
    /\ pc \in {"feed", "new", "existing"} <=> running = 1
    /\ ~last.done => (pc \in {"new", "existing"} /\ last.feed = Feeds[idx])
    /\ (cycle = 1 /\ pc # "idle") => nextTick = NoTime
    /\ cycle > 1 => nextTick # NoTime

\* C15 witness: the second cycle outlasted the tick period, so the third has
\* started at once on the tick that was waiting, less than a period before
\* the next one.
C15_Witness ==
    /\ cycle = 3
    /\ pc = "feed"
    /\ visited = <<>>
    /\ running = 1
    /\ nextTick - now < StandardIntervalSecs

(***************************************************************************)
(* Properties of the sent_items table.                                     *)
(***************************************************************************)
\* C16: recorded only on confirmed success.  Every row that a step adds to
\* sent_items is either for a pair whose SendEmail call succeeded in that
\* step, before the row was written, or is written by processNewFeed for an
\* item other than the one it offered; no row is added for the pair of a
\* SendEmail call that has just failed.
C16_RecordedOnlyOnSuccess ==
    [][\A r \in sent_items' \ sent_items :
          /\ \/ emails'[<<r.feed_url, r.item_guid>>] = emails[<<r.feed_url, r.item_guid>>] + 1
             \/ /\ last'.step = "new"
                /\ r.feed_url = last'.feed
                /\ r.item_guid \notin last'.offered
          /\ <<r.feed_url, r.item_guid>> \notin failedTx' \ failedTx]_vars

\* C16 witness: one feed has a row for an item that was mailed, a row for
\* an item suppressed on the first run, and an item whose transmission
\* failed and that has no row.
C16_Witness ==
    \E f \in FeedURLs : \E g1, g2, g3 \in GUIDs :
        /\ IsItemSent(sent_items, f, g1) /\ emails[<<f, g1>>] = 1
        /\ IsItemSent(sent_items, f, g2) /\ emails[<<f, g2>>] = 0
        /\ <<f, g3>> \in failedTx /\ ~IsItemSent(sent_items, f, g3)

\* C17: MarkItemSent is idempotent.  A MarkItemSent call for a (feed_url,
\* item_guid) pair that already has a row returns no error and leaves
\* sent_items as it was: one row for the pair, with its original sent_at.
C17_MarkItemSentIdempotent ==
    (stOut.called /\ IsItemSent(stIn.si, stIn.feedURL, stIn.itemGUID)) =>
        /\ ~stOut.err
        /\ stOut.si = stIn.si

\* the GUIDs of a list of items, in order
GuidsOf(its) == [i \in 1..Len(its) |-> its[i].GUID]
\* s can be obtained from t by leaving elements out
RECURSIVE IsSubseq(_, _)
IsSubseq(s, t) ==
    IF s = <<>> THEN TRUE
    ELSE IF t = <<>> THEN FALSE
    ELSE IF Head(s) = Head(t) THEN IsSubseq(Tail(s), Tail(t))
    ELSE IsSubseq(s, Tail(t))

\* C18: steady-state delivery.  When a feed that had at least one
\* sent_items row is polled with Success, then once the call has ended
\* every fetched item without a row for (feed_url, guid) was offered to
\* SendEmail in that call, no item with a row was offered, and the offers
\* were made in the order of the fetched list.
C18_SteadyStateDelivery ==
    (/\ last.done
     /\ last.status = StatusOK
     /\ last.step # "fail"
     /\ last.preSent # {}) =>
        /\ \A i \in 1..Len(last.items) :
              last.items[i].GUID \notin last.preSent =>
                  last.items[i].GUID \in last.offered
        /\ last.offered \cap last.preSent = {}
        /\ \A n \in 1..Len(last.offerSeq) : last.offerSeq[n] \in last.offered
        /\ IsSubseq(last.offerSeq, GuidsOf(last.items))

\* C18 witness: a feed with a row served two items without rows; both were
\* offered, the first before the second.
C18_Witness ==
    /\ last.done
    /\ last.status = StatusOK
    /\ last.preSent # {}
    /\ Len(last.items) = 2
    /\ last.items[1].GUID # last.items[2].GUID
    /\ last.items[1].GUID \notin last.preSent
    /\ last.items[2].GUID \notin last.preSent
    /\ last.offerSeq = <<last.items[1].GUID, last.items[2].GUID>>

(***************************************************************************)
(* Properties of startup.                                                  *)
(***************************************************************************)
\* C19: startup configuration is fatal on missing data.  When one of
\* GMAIL_ADDRESS, GMAIL_APP_PASSWORD and RECIPIENT_EMAIL is absent or the
\* feed list is empty, then once main has run the process has exited, the
\* database was never initialised, no feed was fetched and no notification
\* was sent.
C19_FatalOnMissingConfiguration ==
    (/\ pc # "start"
     /\ \/ config.GMAIL_ADDRESS = ""
        \/ config.GMAIL_APP_PASSWORD = ""
        \/ config.RECIPIENT_EMAIL = ""
        \/ config.feeds = <<>>) =>
        /\ pc = "dead"
        /\ db = "closed"
        /\ cycle = 0
        /\ last = NoLast
        /\ \A p \in Pairs : emails[p] = 0
        /\ sent_items = {}

\* C19 witness: config.yaml is read and parsed and all three values are set
\* but the feed list is empty; the process has exited.
C19_Witness ==
    /\ pc = "dead"
    /\ db = "closed"
    /\ config = Config("ok", <<>>, "sender", "secret", "reader")

(***************************************************************************)
(* Properties of the backoff policy for every failure count.               *)
(***************************************************************************)
\* C20: exponential backoff is bounded and monotone.  For a failure other
\* than Gone without a usable Retry-After and every failure count n >= 1,
\* the next check is min(60 min * 2^(n-1), 24 h) after now, that is 24 h
\* for every n >= 6, and the delay for count n + 1 is not shorter than the
\* delay for count n.
C20_BackoffBoundedMonotone ==
    (bkOut # NoTime /\ bkIn.status # StatusGone /\ Unusable(bkIn.retryAfter, bkIn.now)) =>
        /\ bkOut - bkIn.now = IF bkIn.errorCount >= 6 THEN 24 * 60 * 60
                              ELSE 60 * 60 * 2^(bkIn.errorCount - 1)
        /\ bkOut <= calculateBackoff(bkIn.status, bkIn.retryAfter, bkIn.errorCount + 1,
                                     bkIn.now, goarch)

(***************************************************************************)
(* Properties of the fetcher.                                              *)
(***************************************************************************)
\* C21: fetch outcome classification.  For the exchange of every fetch:
\* a request that fails before any status is known is a failure that
\* processFeed records with status 0; 304 is NotModified with no items; 429
\* is a failure whose result carries the Retry-After header as sent; 410 is
\* a failure that processFeed schedules a year out; any other status
\* different from 200 is a failure carrying that status; 200 with a parsable
\* body is Success.  The call takes the one path of its outcome: failure,
\* not modified, or success.
C21_FetchOutcomeClassification ==
    Fetched =>
        LET x == last.x
            result == FetchFeed(x)
            row == FailureRow(last.pre, result, last.at, goarch)
        IN  IF x.neterr
            THEN result.err /\ result.nil /\ row.status = 0 /\ last.step = "fail"
            ELSE /\ ~result.nil
                 /\ result.StatusCode = x.status
                 /\ x.status = StatusNotModified =>
                       /\ ~result.err /\ result.NotModified /\ result.Items = <<>>
                       /\ last.step = "notmod"
                 /\ x.status = StatusTooManyRequests =>
                       /\ result.err /\ ~result.NotModified
                       /\ result.RetryAfter = x.retryAfter
                       /\ last.step = "fail"
                 /\ x.status = StatusGone =>
                       /\ result.err /\ ~result.NotModified
                       /\ row.status = StatusGone
                       /\ row.nextCheck = last.at + Day365
                       /\ last.step = "fail"
                 /\ x.status \notin {StatusOK, StatusNotModified} =>
                       /\ result.err /\ ~result.NotModified
                       /\ row.status = x.status
                       /\ last.step = "fail"
                 /\ (x.status = StatusOK /\ x.body.read /\ x.body.parsed) =>
                       /\ ~result.err /\ ~result.NotModified
                       /\ last.step \in {"empty", "haserr", "new", "existing"}

\* C21 witness: a 429 response with Retry-After: 120 has been handled as a
\* failure.
C21_Witness ==
    /\ Fetched
    /\ ~last.x.neterr
    /\ last.x.status = StatusTooManyRequests
    /\ last.x.retryAfter = IntHeader(FALSE, <<1, 2, 0>>)
    /\ last.step = "fail"

\* C22: first-run selection rule.  For the items of every fetch,
\* GetMostRecentItem returns nothing on an empty list; on a list with dated
\* items a dated item whose publish time no other item exceeds and which no
\* earlier item equals; on a non-empty list without dated items the first
\* item.  processNewFeed offers that item and no other.
C22_FirstRunSelection ==
    LET its == last.items
        i == GetMostRecentItem(its)
    IN  /\ its = <<>> => i = 0
        /\ its # <<>> =>
              /\ i \in 1..Len(its)
              /\ Dated(its) # {} =>
                    /\ i \in Dated(its)
                    /\ \A j \in Dated(its) : its[j].Published <= its[i].Published
                    /\ \A j \in Dated(its) : j < i => its[j].Published < its[i].Published
              /\ Dated(its) = {} => i = 1
              /\ (last.step = "new" /\ last.done) => last.offerSeq = <<its[i].GUID>>

\* C22 witness: a first document lists an undated item, then two items
\* with different GUIDs that share the latest publish time; the first of
\* the two was offered.
C22_Witness ==
    /\ last.step = "new"
    /\ last.done
    /\ Len(last.items) = 3
    /\ last.items[1].Published = NoTime
    /\ last.items[2].Published = 3
    /\ last.items[3].Published = 3
    /\ last.items[2].GUID # last.items[3].GUID
    /\ last.offerSeq = <<last.items[2].GUID>>

\* the error count processFeed read before the latest call
PreCount == IF last.pre.exists THEN last.pre.error_count ELSE 0
\* the exponential delay of the policy for failure count n, in seconds
PolicyDelay(n) == IF n >= 6 THEN 24 * 60 * 60 ELSE 60 * 60 * 2^(n - 1)

\* C23: parse errors are scheduled as transient failures.  After a poll
\* whose 200 response has a body that cannot be read or parsed, the feed's
\* error_count is one above the count read before the poll, its
\* next_check_after is the one a 500 response with the same Retry-After
\* and count would get, which is the exponential delay of that count after
\* the poll, its validators are the ones cached before the poll (empty when
\* there was no row), and nothing was offered, notified or recorded.
C23_ParseErrorIsTransientFailure ==
    (/\ Fetched
     /\ ~last.x.neterr
     /\ last.x.status = StatusOK
     /\ (~last.x.body.read \/ ~last.x.body.parsed)) =>
        /\ last.step = "fail"
        /\ Row.error_count = PreCount + 1
        /\ Row.next_check_after =
              calculateBackoff(500, last.x.retryAfter, PreCount + 1, last.at, goarch)
        /\ Unusable(last.x.retryAfter, last.at) =>
              Row.next_check_after = last.at + PolicyDelay(PreCount + 1)
        /\ Row.etag = (IF last.pre.exists THEN last.pre.etag ELSE "")
        /\ Row.last_modified = (IF last.pre.exists THEN last.pre.last_modified ELSE "")
        /\ last.offered = {}
        /\ last.notified = <<>>
        /\ SentGUIDs(sent_items, last.feed) = last.preSent

\* C23 witness: a feed that failed once and has no cached validators gets a
\* 200 response with validators and a body gofeed cannot parse; the count
\* is 2 and the validators stay empty.
C23_Witness ==
    /\ Fetched
    /\ ~last.x.neterr
    /\ last.x.status = StatusOK
    /\ last.x.body.read
    /\ ~last.x.body.parsed
    /\ last.x.etag # ""
    /\ last.pre.exists
    /\ last.pre.error_count = 1
    /\ Row.error_count = 2
    /\ Row.etag = ""
    /\ Row.next_check_after = last.at + 2 * 60 * 60

\* the HTTP status of the latest fetch, 0 when the request itself failed
AttemptStatus == IF last.x.neterr THEN 0 ELSE last.x.status

\* C24: metadata reflects the last attempt.  After every poll in which a
\* fetch was issued, failed or successful, the feed has a metadata row whose
\* last_checked is the time of that poll and whose last_poll_status is the
\* HTTP status of its response, 0 when the request failed before a status
\* was known; and no step of the program removes a metadata row.
C24_MetadataReflectsLastAttempt ==
    /\ [](Fetched =>
            /\ Row.exists
            /\ Row.last_checked = last.at
            /\ Row.last_poll_status = AttemptStatus)
    /\ [][\A f \in FeedURLs : feed_metadata[f].exists => feed_metadata'[f].exists]_vars

\* C24 witness: the very first attempt of a feed, made after the cycle's
\* start, fails before any status is known and leaves a row with status 0.
C24_Witness ==
    /\ Fetched
    /\ ~last.pre.exists
    /\ last.x.neterr
    /\ last.at > 0
    /\ Row.exists
    /\ Row.last_checked = last.at
    /\ Row.last_poll_status = 0

\* the entries of a document that carry a GUID or a link, in document order
Identifiable(entries) == SelectSeq(entries, LAMBDA e : e.GUID # "" \/ e.Link # "")

\* C25: only identifiable items reach delivery.  The items of a parsed
\* document are its entries that have a GUID or a link, in order, each with
\* a non-empty guid that is the entry's GUID when it has one and its link
\* otherwise; entries with neither are dropped.  What is offered for
\* transmission is among these guids, and no sent_items row and no offer
\* has an empty guid.
C25_OnlyIdentifiableItems ==
    /\ (Fetched /\ last.step \in {"empty", "haserr", "new", "existing"}) =>
          LET es == Identifiable(last.x.body.entries)
              its == last.items
          IN  /\ Len(its) = Len(es)
              /\ \A i \in 1..Len(its) :
                    /\ its[i].GUID # ""
                    /\ its[i].GUID = (IF es[i].GUID # "" THEN es[i].GUID ELSE es[i].Link)
              /\ last.offered \subseteq {its[i].GUID : i \in 1..Len(its)}
              /\ SentGUIDs(sent_items, last.feed) \ last.preSent
                    \subseteq {its[i].GUID : i \in 1..Len(its)}
    /\ "" \notin last.offered
    /\ \A r \in sent_items : r.item_guid # ""

\* C25 witness: a feed with earlier deliveries serves an entry with neither
\* GUID nor link followed by one with a link only; the second is delivered
\* under its link and is the only item of the poll.
C25_Witness ==
    /\ last.step = "existing"
    /\ last.done
    /\ Len(last.x.body.entries) = 2
    /\ last.x.body.entries[1].GUID = ""
    /\ last.x.body.entries[1].Link = ""
    /\ last.x.body.entries[2].GUID = ""
    /\ Len(last.items) = 1
    /\ last.items[1].GUID = "g3"
    /\ last.offered = {"g3"}
    /\ "g3" \in SentGUIDs(sent_items, last.feed)

\* C26: Retry-After fallback.  When a failure other than Gone carries a
\* Retry-After that is absent, not a number, zero or negative seconds, or a
\* date that is not in the future, the next check is exactly the exponential
\* delay min(60 min * 2^(n-1), 24 h) of the new error count n after now, and
\* so never earlier than now plus the standard interval.
C26_RetryAfterFallback ==
    (bkOut # NoTime /\ bkIn.status # StatusGone /\ Unusable(bkIn.retryAfter, bkIn.now)) =>
        /\ bkOut = bkIn.now + PolicyDelay(bkIn.errorCount)
        /\ bkOut >= bkIn.now + StandardIntervalSecs

(***************************************************************************)
(* Delivery after a refused message, the documents staying unchanged.      *)
(***************************************************************************)
\* C27: eventual delivery after a transmission failure.  If the
\* transmission of an item fails, and from then on no transmission fails
\* while the feed's document stays the same, the server answering with the
\* document or with 304 Not Modified, then the item is eventually delivered.
C27_EventualDelivery ==
    \A p \in Pairs : (p \in failedTx) ~> (emails[p] >= 1)

(***************************************************************************)
(* Delivery under store faults and termination.                            *)
(***************************************************************************)
\* C28: at-most-once survives faults between transmit and record.  An item
\* whose mail was sent but whose sent_items row was not written, because
\* MarkItemSent returned an error or the process was terminated in between,
\* is not mailed a second time, in a later cycle or after a restart.
C28_AtMostOnceAcrossFaults ==
    \A p \in unrecorded : emails[p] <= 1

(***************************************************************************)
(* The first-run policy in later polls.                                    *)
(***************************************************************************)
\* C29: the first-run policy applies only to the first successful poll.
\* When the poll of a feed before the latest one ended in Success (status
\* 200, no error counted, whatever the number of its items), every
\* sent_items row the latest poll has written is for an item that has been
\* transmitted.
C29_FirstRunOnlyOnce ==
    (/\ Fetched
     /\ last.done
     /\ last.pre.exists
     /\ last.pre.last_poll_status = StatusOK
     /\ last.pre.error_count = 0) =>
        \A g \in SentGUIDs(sent_items, last.feed) \ last.preSent :
            emails[<<last.feed, g>>] >= 1

(***************************************************************************)
(* The polling rhythm of healthy feeds.                                    *)
(***************************************************************************)
\* C30: healthy feeds are polled once per standard interval.  A feed whose
\* poll in the cycle started by one tick ended in Success or NotModified is
\* not skipped in the cycle started by the next tick, one standard interval
\* later.  (The tick that started the running cycle is one interval before
\* nextTick, the one before it two intervals.)
C30_HealthyFeedPolledEveryInterval ==
    ~(/\ cycle >= 3
      /\ last.step = "skip"
      /\ last.t0 >= nextTick - StandardIntervalSecs
      /\ last.pre.last_checked >= nextTick - 2 * StandardIntervalSecs
      /\ last.pre.last_poll_status \in {StatusOK, StatusNotModified}
      /\ last.pre.error_count = 0)

\* C31: minimum spacing between fetches.  Across cycles and restarts, a
\* fetch of a feed is issued at least one standard interval after the
\* feed's previous fetch, when the metadata write of that previous fetch
\* succeeded, whatever its outcome was (a Retry-After shorter than the
\* standard interval included).
C31_MinimumSpacing ==
    (Fetched /\ last.prev.at # NoTime /\ last.prev.wrote) =>
        last.t0 - last.prev.at >= StandardIntervalSecs

\* C31 witness: a feed whose previous fetch was answered 429 with a
\* Retry-After of 120 s, recorded in its row, is fetched again, an hour or
\* more after that fetch.
C31_Witness ==
    /\ Fetched
    /\ last.prev.at # NoTime
    /\ last.prev.wrote
    /\ last.pre.last_poll_status = StatusTooManyRequests
    /\ last.pre.next_check_after < last.pre.last_checked + StandardIntervalSecs
    /\ last.t0 - last.prev.at >= StandardIntervalSecs

SentRows(si, feedURL) == {r \in si : r.feed_url = feedURL}
EmailsOf(em, feedURL) == [g \in GUIDs |-> em[<<feedURL, g>>]]

\* C33: a skipped feed changes nothing.  The step in which the due check
\* skips a feed leaves that feed's metadata row (validators, last_checked,
\* last_poll_status, next_check_after, error_count) and its sent-item rows
\* as they were, and sends no notification for it.
C33_SkipChangesNothing ==
    [][(visited' # visited /\ last'.step = "skip") =>
          /\ feed_metadata'[last'.feed] = feed_metadata[last'.feed]
          /\ SentRows(sent_items', last'.feed) = SentRows(sent_items, last'.feed)
          /\ EmailsOf(emails', last'.feed) = EmailsOf(emails, last'.feed)]_vars

\* C33 witness: a feed with a metadata row that was polled with success and
\* with sent-item rows has just been skipped, in a later cycle, and its row
\* is the one the due check read.
C33_Witness ==
    /\ last.step = "skip"
    /\ cycle >= 2
    /\ last.pre.exists
    /\ last.pre.last_poll_status = StatusOK
    /\ last.preSent # {}
    /\ Row = last.pre
    /\ SentGUIDs(sent_items, last.feed) = last.preSent

\* the failure outcomes of a poll: no response, a status other than 200 and
\* 304 (429 and 410 among them), a 200 body that cannot be read or parsed
FailureOutcome(x) ==
    \/ x.neterr
    \/ /\ x.status # StatusNotModified
       /\ (x.status # StatusOK \/ ~x.body.read \/ ~x.body.parsed)
\* the validators of a metadata row; a feed without a row has none
Validators(row) ==
    IF row.exists THEN <<row.last_modified, row.etag>> ELSE <<"", "">>

\* C34: a failed poll touches only scheduling state.  Every step of a call
\* of processFeed whose fetch ended in a failure outcome (no response, 429,
\* 410, another status, a body that cannot be read or parsed) sends no
\* notification for the feed and leaves its sent-item rows and the
\* validators of its metadata row as they were: only last_checked,
\* last_poll_status, error_count and next_check_after may change.
C34_FailedPollTouchesOnlySchedule ==
    [][(/\ last' # last
        /\ last'.step \in {"fail", "notmod", "empty", "haserr", "new", "existing"}
        /\ FailureOutcome(last'.x)) =>
          /\ SentRows(sent_items', last'.feed) = SentRows(sent_items, last'.feed)
          /\ EmailsOf(emails', last'.feed) = EmailsOf(emails, last'.feed)
          /\ Validators(feed_metadata'[last'.feed]) = Validators(feed_metadata[last'.feed])]_vars

\* C34 witness: a feed holding validators and sent-item rows has been
\* answered 410 Gone with other validators; its row carries the new status,
\* one more error and the old validators, and nothing was offered or sent.
C34_Witness ==
    /\ Fetched
    /\ FailureOutcome(last.x)
    /\ last.status = StatusGone
    /\ last.pre.exists
    /\ last.pre.etag # ""
    /\ last.et # last.pre.etag
    /\ last.preSent # {}
    /\ Row.last_poll_status = StatusGone
    /\ Row.error_count = last.pre.error_count + 1
    /\ Row.last_checked = last.at
    /\ Validators(Row) = Validators(last.pre)
    /\ last.offered = {}
    /\ SentGUIDs(sent_items, last.feed) = last.preSent

(***************************************************************************)
(* Feeds do not touch each other.                                          *)
(***************************************************************************)
ItemGUIDs(its) == {its[i].GUID : i \in 1..Len(its)}

\* C35: per-feed isolation.  Every step of processing a feed leaves the
\* metadata rows, the sent-item rows and the notification counts of every
\* other feed as they were; whether the feed is polled or skipped follows
\* from its own row and the clock, whatever the other feeds' error counts,
\* validators and schedules are; and a call for a feed that has sent-item
\* rows offers exactly the fetched items whose GUID is not among that
\* feed's own rows, so a GUID recorded for another feed suppresses nothing.
C35_PerFeedIsolation ==
    [][(last' # last /\ last'.feed \in FeedURLs) =>
          LET f == last'.feed
          IN  /\ \A g \in FeedURLs \ {f} :
                    /\ feed_metadata'[g] = feed_metadata[g]
                    /\ SentRows(sent_items', g) = SentRows(sent_items, g)
                    /\ EmailsOf(emails', g) = EmailsOf(emails, g)
              /\ visited' # visited =>
                    /\ last'.pre = feed_metadata[f]
                    /\ last'.step = "skip" <=>
                          (feed_metadata[f].exists /\ NotDue(feed_metadata[f], now))
              /\ (last'.step = "existing" /\ last'.done) =>
                    /\ last'.preSent # {}
                    /\ last'.offered = ItemGUIDs(last'.items) \ last'.preSent]_vars

\* C35 witness: g2 is recorded as sent for fA, whose last poll failed and
\* left an error count, and a call for fB, which had rows of its own but
\* none for g2, has offered g2 and notified it.
C35_Witness ==
    /\ last.feed = "fB"
    /\ last.step = "existing"
    /\ last.done
    /\ "g2" \in SentGUIDs(sent_items, "fA")
    /\ feed_metadata["fA"].exists
    /\ feed_metadata["fA"].error_count >= 1
    /\ feed_metadata["fA"].next_check_after > last.t0
    /\ "g2" \notin last.preSent
    /\ last.preSent # {}
    /\ "g2" \in last.offered
    /\ emails[<<"fA", "g2">>] >= 1
    /\ emails[<<"fB", "g2">>] >= 1
====
